---- MODULE Spec2Model ----
(***************************************************************************)
(* defi-apy-bot: the pool adapters (HyperionAPI, BluefinAPI) with their    *)
(* TTL cache and stale-on-error fallback, the token resolver, and the      *)
(* cross-chain search engine (TokenSearchEngine).                          *)
(*                                                                         *)
(* Python values are modelled as follows.                                  *)
(*   str    a sequence of one-character strings                            *)
(*   float  an integer (USD amounts and percentages are whole numbers)     *)
(*   dict   a function from keys to values; d.get(k, default) is Get       *)
(*   JSON   a tagged record: Null, Num(n), Str(s), Bool(b), Obj(o)         *)
(*   Optional[List]  <<>> for None, <<list>> for a list                    *)
(***************************************************************************)
EXTENDS Integers, Sequences, FiniteSets, TLC

VARIABLES
    now,                    \* time.time()
    _cache,                 \* adapter -> Optional[List[Dict]]
    _cache_timestamp,       \* adapter -> float
    _logged_unknown_tokens, \* token_registry._logged_unknown_tokens
    calls,                  \* caller -> the get_all_pools coroutine it runs
    last_call,              \* adapter -> the get_all_pools call that completed last
    search,                 \* the search_token coroutine
    resolver,               \* the resolver entry points' module state and last call
    filtering,              \* the last filter_pools call
    adapter,                \* the last HyperionAdapter.get_pools or _enrich_pool call
    db                      \* the tables of bot.db and the add_watched_pool sessions

vars ==
    <<now, _cache, _cache_timestamp, _logged_unknown_tokens, calls, last_call, search,
      resolver, filtering, adapter, db>>

----------------------------------------------------------------------------
(* Python str operations, on sequences of characters.                      *)

LowerAlpha == <<"a","b","c","d","e","f","g","h","i","j","k","l","m","n","o","p","q","r","s","t","u","v","w","x","y","z">>

UpperAlpha == <<"A","B","C","D","E","F","G","H","I","J","K","L","M","N","O","P","Q","R","S","T","U","V","W","X","Y","Z">>

Whitespace == {" ", "\t", "\n", "\r"}

lower_char(c) ==
    IF \E i \in 1..26 : UpperAlpha[i] = c
    THEN LowerAlpha[CHOOSE i \in 1..26 : UpperAlpha[i] = c]
    ELSE c

upper_char(c) ==
    IF \E i \in 1..26 : LowerAlpha[i] = c
    THEN UpperAlpha[CHOOSE i \in 1..26 : LowerAlpha[i] = c]
    ELSE c

lower(s) == [i \in 1..Len(s) |-> lower_char(s[i])]

upper(s) == [i \in 1..Len(s) |-> upper_char(s[i])]

strip(s) ==
    LET keep == {i \in 1..Len(s) : s[i] \notin Whitespace}
    IN  IF keep = {} THEN <<>>
        ELSE SubSeq(s, CHOOSE i \in keep : \A j \in keep : i <= j,
                       CHOOSE i \in keep : \A j \in keep : j <= i)

startswith(s, prefix) ==
    Len(prefix) <= Len(s) /\ SubSeq(s, 1, Len(prefix)) = prefix

endswith(s, suffix) ==
    Len(suffix) <= Len(s) /\ SubSeq(s, Len(s) - Len(suffix) + 1, Len(s)) = suffix

\* `sub in s`
contains(s, sub) ==
    \E i \in 1..(Len(s) - Len(sub) + 1) : SubSeq(s, i, i + Len(sub) - 1) = sub

\* s[a:b] for 0 <= a <= b
slice(s, a, b) ==
    SubSeq(s, a + 1, IF b < Len(s) THEN b ELSE Len(s))

\* s[-n:]
last_chars(s, n) ==
    IF Len(s) <= n THEN s ELSE SubSeq(s, Len(s) - n + 1, Len(s))

RECURSIVE replace(_, _, _)
\* s.replace(old, new), old non-empty: every occurrence, left to right
replace(s, old, new) ==
    IF Len(s) < Len(old) THEN s
    ELSE IF SubSeq(s, 1, Len(old)) = old
         THEN new \o replace(SubSeq(s, Len(old) + 1, Len(s)), old, new)
         ELSE <<s[1]>> \o replace(Tail(s), old, new)

RECURSIVE split(_, _)
\* s.split(sep), sep non-empty: empty segments are kept
split(s, sep) ==
    LET hits == {i \in 1..(Len(s) - Len(sep) + 1) : SubSeq(s, i, i + Len(sep) - 1) = sep}
    IN  IF hits = {} THEN <<s>>
        ELSE LET i == CHOOSE h \in hits : \A k \in hits : h <= k
             IN  <<SubSeq(s, 1, i - 1)>> \o split(SubSeq(s, i + Len(sep), Len(s)), sep)

----------------------------------------------------------------------------
(* JSON values of the upstream payloads and dict access.                   *)

Null == [t |-> "null"]

Num(n) == [t |-> "num", n |-> n]

Str(s) == [t |-> "str", s |-> s]

Bool(b) == [t |-> "bool", b |-> b]

Obj(o) == [t |-> "obj", o |-> o]

\* d.get(k, default)
Get(d, k, default) == IF k \in DOMAIN d THEN d[k] ELSE default

\* {**d, **e}
Merge(d, e) ==
    [k \in (DOMAIN d) \cup (DOMAIN e) |-> IF k \in DOMAIN e THEN e[k] ELSE d[k]]

Digits == <<"0","1","2","3","4","5","6","7","8","9">>

IsDigits(s) == Len(s) > 0 /\ \A i \in 1..Len(s) : \E d \in 1..10 : Digits[d] = s[i]

RECURSIVE DigitsValue(_)
DigitsValue(s) ==
    IF s = <<>> THEN 0
    ELSE 10 * DigitsValue(SubSeq(s, 1, Len(s) - 1))
         + (CHOOSE d \in 0..9 : Digits[d + 1] = s[Len(s)])

\* float(v) raises TypeError for None and dicts, ValueError for text that is
\* no number; the payloads carry numbers or digit strings.
float_raises(v) ==
    CASE v.t = "num"  -> FALSE
      [] v.t = "bool" -> FALSE
      [] v.t = "str"  -> ~IsDigits(strip(v.s))
      [] OTHER        -> TRUE

float(v) ==
    CASE v.t = "num"  -> v.n
      [] v.t = "bool" -> IF v.b THEN 1 ELSE 0
      [] OTHER        -> DigitsValue(strip(v.s))

\* `if x:` / `not x` for a JSON value
truthy(v) ==
    CASE v.t = "null" -> FALSE
      [] v.t = "num"  -> v.n # 0
      [] v.t = "str"  -> v.s # <<>>
      [] v.t = "bool" -> v.b
      [] OTHER        -> DOMAIN v.o # {}

----------------------------------------------------------------------------
(* bot/utils/token_registry.py: the token resolver.                        *)

\* (regex, symbol): every regex is a literal text followed by `$`; the text is kept here
TOKEN_PATTERNS == <<
    <<<<":",":","a","p","t","o","s","_","c","o","i","n",":",":","A","p","t","o","s","C","o","i","n">>,
      <<"A","P","T">>>>,   \* ::aptos_coin::AptosCoin$
    <<<<":",":","a","s","s","e","t",":",":","U","S","D","C">>,
      <<"U","S","D","C">>>>,   \* ::asset::USDC$
    <<<<":",":","a","s","s","e","t",":",":","U","S","D","T">>,
      <<"U","S","D","T">>>>,   \* ::asset::USDT$
    <<<<":",":","a","s","s","e","t",":",":","W","E","T","H">>,
      <<"W","E","T","H">>>>,   \* ::asset::WETH$
    <<<<":",":","a","s","s","e","t",":",":","W","B","T","C">>,
      <<"W","B","T","C">>>>,   \* ::asset::WBTC$
    <<<<":",":","a","s","s","e","t",":",":","D","A","I">>,
      <<"D","A","I">>>>,   \* ::asset::DAI$
    <<<<"U","s","d","c","C","o","i","n">>,
      <<"U","S","D","C">>>>,   \* UsdcCoin$
    <<<<"U","s","d","t","C","o","i","n">>,
      <<"U","S","D","T">>>>,   \* UsdtCoin$
    <<<<"W","e","t","h","C","o","i","n">>,
      <<"W","E","T","H">>>>,   \* WethCoin$
    <<<<"W","b","t","c","C","o","i","n">>,
      <<"W","B","T","C">>>>,   \* WbtcCoin$
    <<<<"A","m","n","i","s","A","p","t">>,
      <<"a","m","A","P","T">>>>,   \* AmnisApt$
    <<<<"S","t","a","k","e","d","A","p","t","o","s","C","o","i","n">>,
      <<"s","t","A","P","T">>>>,   \* StakedAptosCoin$
    <<<<"S","t","a","k","e","d","A","p","t","o","s">>,
      <<"s","t","A","P","T">>>>   \* StakedAptos$
    >>

\* (identifier, symbol) in the order the dict literal lists them
TOKEN_REGISTRY == <<
    <<
        <<"0","x","1",":",":","a","p","t","o","s","_","c","o","i","n",":",":","A","p","t","o","s",
        "C","o","i","n">>,
      <<"A","P","T">>>>,   \* APT
    <<
        <<"0","x","f","2","2","b","e","d","e","2","3","7","a","0","7","e","1","2","1","b","5","6",
        "d","9","1","a","4","9","1","e","b","7","b","c","d","f","d","1","f","5","9","0","7","9","2",
        "6","a","9","e","5","8","3","3","8","f","9","6","4","a","0","1","b","1","7","f","a",":",":",
        "a","s","s","e","t",":",":","U","S","D","C">>,
      <<"U","S","D","C">>>>,   \* USDC
    <<
        <<"0","x","f","2","2","b","e","d","e","2","3","7","a","0","7","e","1","2","1","b","5","6",
        "d","9","1","a","4","9","1","e","b","7","b","c","d","f","d","1","f","5","9","0","7","9","2",
        "6","a","9","e","5","8","3","3","8","f","9","6","4","a","0","1","b","1","7","f","a",":",":",
        "a","s","s","e","t",":",":","U","S","D","T">>,
      <<"U","S","D","T">>>>,   \* USDT
    <<
        <<"0","x","f","2","2","b","e","d","e","2","3","7","a","0","7","e","1","2","1","b","5","6",
        "d","9","1","a","4","9","1","e","b","7","b","c","d","f","d","1","f","5","9","0","7","9","2",
        "6","a","9","e","5","8","3","3","8","f","9","6","4","a","0","1","b","1","7","f","a",":",":",
        "a","s","s","e","t",":",":","W","E","T","H">>,
      <<"W","E","T","H">>>>,   \* WETH
    <<
        <<"0","x","f","2","2","b","e","d","e","2","3","7","a","0","7","e","1","2","1","b","5","6",
        "d","9","1","a","4","9","1","e","b","7","b","c","d","f","d","1","f","5","9","0","7","9","2",
        "6","a","9","e","5","8","3","3","8","f","9","6","4","a","0","1","b","1","7","f","a",":",":",
        "a","s","s","e","t",":",":","W","B","T","C">>,
      <<"W","B","T","C">>>>,   \* WBTC
    <<
        <<"0","x","1","1","1","a","e","3","e","5","b","c","8","1","6","a","5","e","6","3","c","2",
        "d","a","9","7","d","0","a","a","3","8","8","6","5","1","9","e","0","c","d","5","e","4","b",
        "0","4","6","6","5","9","f","a","3","5","7","9","6","b","d","1","1","5","4","2","a",":",":",
        "a","m","a","p","t","_","t","o","k","e","n",":",":","A","m","n","i","s","A","p","t">>,
      <<"a","m","A","P","T">>>>,   \* amAPT
    <<
        <<"0","x","a","2","5","9","b","e","7","3","3","b","6","a","7","5","9","9","0","9","f","9",
        "2","8","1","5","9","2","7","f","a","2","1","3","9","0","4","d","f","6","5","4","0","5","1",
        "9","5","6","8","6","9","2","c","a","f","0","b","0","6","8","f","e","8","e","6","2",":",":",
        "a","m","a","p","t","_","t","o","k","e","n",":",":","A","m","n","i","s","A","p","t">>,
      <<"a","m","A","P","T">>>>,   \* amAPT
    <<
        <<"0","x","8","4","d","7","a","e","e","f","4","2","d","3","8","a","5","f","f","c","3","c",
        "c","e","f","8","5","3","e","1","b","8","2","e","4","9","5","8","6","5","9","d","1","6","a",
        "7","d","e","7","3","6","a","2","9","c","5","5","f","b","b","e","b","0","1","1","4",":",":",
        "s","t","a","k","e","d","_","a","p","t","o","s","_","c","o","i","n",":",":","S","t","a","k",
        "e","d","A","p","t","o","s","C","o","i","n">>,
      <<"s","t","A","P","T">>>>,   \* stAPT
    <<
        <<"0","x","d","1","1","1","0","7","b","d","f","0","d","6","d","7","0","4","0","c","6","c",
        "0","b","f","b","d","e","c","b","6","5","4","5","1","9","1","f","d","f","1","3","e","8","d",
        "8","d","2","5","9","9","5","2","f","5","3","e","1","7","1","3","f","6","1","b","5",":",":",
        "s","t","a","k","e","d","_","c","o","i","n",":",":","S","t","a","k","e","d","A","p","t","o",
        "s">>,
      <<"s","t","A","P","T">>>>,   \* stAPT
    <<
        <<"0","x","5","e","1","5","6","f","1","2","0","7","d","0","e","b","f","a","1","9","a","9",
        "e","e","f","f","0","0","d","6","2","a","2","8","2","2","7","8","f","b","8","7","1","9","f",
        "4","f","a","b","3","a","5","8","6","a","0","a","2","c","0","f","f","f","b","e","a",":",":",
        "c","o","i","n",":",":","T">>,
      <<"U","S","D","C">>>>,   \* USDC
    <<
        <<"0","x","8","d","8","7","a","6","5","b","a","3","0","e","0","9","3","5","7","f","a","2",
        "e","d","e","a","2","c","8","0","d","b","a","c","2","9","6","e","5","d","e","c","2","b","1",
        "8","2","8","7","1","1","3","5","0","0","b","9","0","2","9","4","2","9","2","9","d",":",":",
        "c","e","l","e","r","_","c","o","i","n","_","m","a","n","a","g","e","r",":",":","U","s","d",
        "c","C","o","i","n">>,
      <<"c","e","U","S","D","C">>>>,   \* ceUSDC
    <<
        <<"0","x","0","0","0","0","0","0","0","0","0","0","0","0","0","0","0","0","0","0","0","0",
        "0","0","0","0","0","0","0","0","0","0","0","0","0","0","0","0","0","0","0","0","0","0","0",
        "0","0","0","0","0","0","0","0","0","0","0","0","0","0","0","0","0","0","0","0","a">>,
      <<"A","P","T">>>>,   \* APT
    <<
        <<"0","x","0","0","0","9","d","a","4","3","4","d","9","b","8","7","3","b","5","1","5","9",
        "e","8","e","e","e","d","7","0","2","0","2","a","d","2","2","d","c","0","7","5","8","6","7",
        "a","7","7","9","3","2","3","4","f","b","c","9","8","1","b","6","3","e","1","1","9">>,
      <<"A","P","T">>>>,   \* APT
    <<
        <<"0","x","b","a","e","2","0","7","6","5","9","d","b","8","8","b","e","a","0","c","b","e",
        "a","d","6","d","a","0","e","d","0","0","a","a","c","1","2","e","d","c","d","d","a","1","6",
        "9","e","5","9","1","c","d","4","1","c","9","4","1","8","0","b","4","6","f","3","b">>,
      <<"U","S","D","C">>>>,   \* USDC
    <<
        <<"0","x","3","5","7","b","0","b","7","4","b","c","8","3","3","e","9","5","a","1","1","5",
        "a","d","2","2","6","0","4","8","5","4","d","6","b","0","f","c","a","1","5","1","c","e","c",
        "d","9","4","1","1","1","7","7","0","e","5","d","6","f","f","c","9","d","c","2","b">>,
      <<"U","S","D","T">>>>,   \* USDT
    <<
        <<"0","x","3","7","7","a","d","c","4","8","4","8","5","5","2","e","b","2","e","a","1","7",
        "2","5","9","b","e","9","2","8","0","0","1","9","2","3","e","f","e","1","2","2","7","1","f",
        "e","f","1","6","6","7","e","2","b","7","8","4","f","0","4","a","7","c","f","3","a">>,
      <<"U","S","D","t">>>>,   \* USDt
    <<
        <<"0","x","8","1","2","1","4","a","8","0","d","8","2","0","3","5","a","1","9","0","f","c",
        "b","7","6","b","6","f","f","3","c","0","1","4","5","1","6","1","c","3","a","9","f","3","3",
        "d","1","3","7","f","2","b","b","a","e","e","4","c","f","e","c","8","a","3","8","7">>,
      <<"x","B","T","C">>>>,   \* xBTC
    <<
        <<"0","x","6","8","8","4","4","a","0","d","7","f","2","5","8","7","e","7","2","6","a","d",
        "0","5","7","9","f","3","d","6","4","0","8","6","5","b","b","4","1","6","2","c","0","8","a",
        "4","5","8","9","e","e","d","a","3","f","9","6","8","9","e","c","5","2","a","3","d">>,
      <<"W","B","T","C">>>>,   \* WBTC
    <<
        <<"0","x","b","3","0","a","6","9","4","a","3","4","4","e","d","e","e","4","6","7","d","9",
        "f","8","2","3","3","0","b","b","e","7","c","3","b","8","9","f","4","4","0","a","1","e","c",
        "d","2","d","a","1","f","3","b","c","a","2","6","6","5","6","0","f","c","e","6","9">>,
      <<"s","U","S","D","e">>>>,   \* sUSDe
    <<
        <<"0","x","8","2","1","c","9","4","e","6","9","b","c","7","c","a","0","5","8","c","9","1",
        "3","b","7","b","5","e","6","b","0","a","5","c","9","f","d","1","5","2","3","d","5","8","7",
        "2","3","a","9","6","6","f","b","8","c","1","f","5","e","a","8","8","8","1","0","5">>,
      <<"k","A","P","T">>>>,   \* kAPT
    <<
        <<"0","x","0","5","f","a","b","d","1","b","1","2","e","3","9","9","6","7","a","3","c","2",
        "4","e","9","1","b","7","b","8","f","6","7","7","1","9","a","6","d","a","c","e","e","7","4",
        "f","3","c","8","b","9","f","b","7","d","9","3","e","8","5","5","4","3","7","d","2">>,
      <<"U","S","D","1">>>>   \* USD1
    >>

\* re.search(text + '$', s, re.IGNORECASE): `$` matches at the end of s and
\* just before a newline that ends s
pattern_matches(text, s) ==
    \/ endswith(lower(s), lower(text))
    \/ /\ s # <<>>
       /\ s[Len(s)] = "\n"
       /\ endswith(lower(SubSeq(s, 1, Len(s) - 1)), lower(text))

parse_token_symbol_from_address(token_address) ==
    LET address == strip(token_address)
        parts == split(address, <<":",":">>)
        last_part == parts[Len(parts)]
    IN  IF Len(parts) >= 3
        THEN IF last_part = <<"A","p","t","o","s","C","o","i","n">> THEN <<"A","P","T">>
             ELSE IF endswith(last_part, <<"C","o","i","n">>)
                  THEN upper(replace(last_part, <<"C","o","i","n">>, <<>>))
             ELSE IF contains(upper(last_part), <<"U","S","D","C">>) THEN <<"U","S","D","C">>
             ELSE IF contains(upper(last_part), <<"U","S","D","T">>) THEN <<"U","S","D","T">>
             ELSE IF contains(upper(last_part), <<"W","E","T","H">>) THEN <<"W","E","T","H">>
             ELSE IF contains(upper(last_part), <<"W","B","T","C">>) THEN <<"W","B","T","C">>
             ELSE IF last_part = <<"A","m","n","i","s","A","p","t">> THEN <<"a","m","A","P","T">>
             ELSE IF last_part = <<"S","t","a","k","e","d","A","p","t","o","s","C","o","i","n">>
                  THEN <<"s","t","A","P","T">>
             ELSE IF last_part = <<"S","t","a","k","e","d","A","p","t","o","s">>
                  THEN <<"s","t","A","P","T">>
             ELSE slice(last_part, 0, 8)
        ELSE IF startswith(address, <<"0","x">>)
             THEN <<"0","x">> \o slice(address, 2, 8)
             ELSE slice(address, 0, 10)

\* the tier that answers get_token_symbol(token_address), a non-empty str
resolution_tier(token_address) ==
    LET normalized == strip(lower(token_address))
    IN  IF \E i \in 1..Len(TOKEN_REGISTRY) : TOKEN_REGISTRY[i][1] = normalized
        THEN "registry"
        ELSE IF \E i \in 1..Len(TOKEN_REGISTRY) :
                    strip(lower(TOKEN_REGISTRY[i][1])) = normalized
        THEN "registry"
        ELSE IF \E i \in 1..Len(TOKEN_PATTERNS) :
                    pattern_matches(TOKEN_PATTERNS[i][1], token_address)
        THEN "pattern"
        ELSE "parsed"

\* get_token_symbol that looks the identifier up as it was passed, without
\* lower-casing and trimming it first
get_token_symbol_as_passed(token_address) ==
    IF ~truthy(token_address) THEN <<"?","?","?">>
    ELSE LET exact == {i \in 1..Len(TOKEN_REGISTRY) : TOKEN_REGISTRY[i][1] = token_address.s}
             matched == {i \in 1..Len(TOKEN_PATTERNS) :
                            pattern_matches(TOKEN_PATTERNS[i][1], token_address.s)}
         IN  IF exact # {}
             THEN TOKEN_REGISTRY[CHOOSE i \in exact : \A j \in exact : j <= i][2]
             ELSE IF matched # {}
             THEN TOKEN_PATTERNS[CHOOSE i \in matched : \A j \in matched : i <= j][2]
             ELSE parse_token_symbol_from_address(token_address.s)

\* get_token_symbol's return value; token_address is a JSON value, and a
\* value that is neither falsy nor a str has no .lower() (see
\* get_token_symbol_raises)
get_token_symbol(token_address) ==
    IF ~truthy(token_address) THEN <<"?","?","?">>
    ELSE LET normalized == strip(lower(token_address.s))
             exact == {i \in 1..Len(TOKEN_REGISTRY) : TOKEN_REGISTRY[i][1] = normalized}
             folded == {i \in 1..Len(TOKEN_REGISTRY) :
                            strip(lower(TOKEN_REGISTRY[i][1])) = normalized}
             matched == {i \in 1..Len(TOKEN_PATTERNS) :
                            pattern_matches(TOKEN_PATTERNS[i][1], token_address.s)}
         IN  IF exact # {}
             THEN TOKEN_REGISTRY[CHOOSE i \in exact : \A j \in exact : j <= i][2]
             ELSE IF folded # {}
             THEN TOKEN_REGISTRY[CHOOSE i \in folded : \A j \in folded : i <= j][2]
             ELSE IF matched # {}
             THEN TOKEN_PATTERNS[CHOOSE i \in matched : \A j \in matched : i <= j][2]
             ELSE parse_token_symbol_from_address(token_address.s)

get_token_symbol_raises(token_address) ==
    truthy(token_address) /\ token_address.t # "str"

\* what get_token_symbol(token_address) adds to _logged_unknown_tokens
get_token_symbol_logs(token_address) ==
    IF truthy(token_address) /\ token_address.t = "str"
       /\ resolution_tier(token_address.s) = "parsed"
    THEN {strip(lower(token_address.s))}
    ELSE {}

----------------------------------------------------------------------------
(* The other resolver entry points of the repository: src/token_parser.py  *)
(* with src/token_registry.py, and HyperionAdapter's two lookups.          *)

\* src/token_registry.py: (identifier, symbol) in the order the dict literal lists them
token_registry_TOKEN_REGISTRY == <<
    <<
        <<"0","x","1",":",":","a","p","t","o","s","_","c","o","i","n",":",":","A","p","t","o","s",
        "C","o","i","n">>,
      <<"A","P","T">>>>,   \* APT
    <<
        <<"0","x","f","2","2","b","e","d","e","2","3","7","a","0","7","e","1","2","1","b","5","6",
        "d","9","1","a","4","9","1","e","b","7","b","c","d","f","d","1","f","5","9","0","7","9","2",
        "6","a","9","e","5","8","3","3","8","f","9","6","4","a","0","1","b","1","7","f","a",":",":",
        "a","s","s","e","t",":",":","U","S","D","C">>,
      <<"U","S","D","C">>>>,   \* USDC
    <<
        <<"0","x","5","e","1","5","6","f","1","2","0","7","d","0","e","b","f","a","1","9","a","9",
        "e","e","f","f","0","0","d","6","2","a","2","8","2","2","7","8","f","b","8","7","1","9","f",
        "4","f","a","b","3","a","5","8","6","a","0","a","2","c","0","f","f","f","b","e","a",":",":",
        "c","o","i","n",":",":","T">>,
      <<"U","S","D","C">>>>,   \* USDC
    <<
        <<"0","x","f","2","2","b","e","d","e","2","3","7","a","0","7","e","1","2","1","b","5","6",
        "d","9","1","a","4","9","1","e","b","7","b","c","d","f","d","1","f","5","9","0","7","9","2",
        "6","a","9","e","5","8","3","3","8","f","9","6","4","a","0","1","b","1","7","f","a",":",":",
        "a","s","s","e","t",":",":","U","S","D","T">>,
      <<"U","S","D","T">>>>,   \* USDT
    <<
        <<"0","x","f","2","2","b","e","d","e","2","3","7","a","0","7","e","1","2","1","b","5","6",
        "d","9","1","a","4","9","1","e","b","7","b","c","d","f","d","1","f","5","9","0","7","9","2",
        "6","a","9","e","5","8","3","3","8","f","9","6","4","a","0","1","b","1","7","f","a",":",":",
        "a","s","s","e","t",":",":","D","A","I">>,
      <<"D","A","I">>>>,   \* DAI
    <<
        <<"0","x","f","2","2","b","e","d","e","2","3","7","a","0","7","e","1","2","1","b","5","6",
        "d","9","1","a","4","9","1","e","b","7","b","c","d","f","d","1","f","5","9","0","7","9","2",
        "6","a","9","e","5","8","3","3","8","f","9","6","4","a","0","1","b","1","7","f","a",":",":",
        "a","s","s","e","t",":",":","W","E","T","H">>,
      <<"W","E","T","H">>>>,   \* WETH
    <<
        <<"0","x","a","e","4","7","8","f","f","7","d","8","3","e","d","0","7","2","d","b","c","5",
        "e","2","6","4","2","5","0","e","6","7","e","f","5","8","f","5","7","c","9","9","d","8","9",
        "b","4","4","7","e","f","d","8","a","0","a","2","e","8","b","2","b","e","7","6","e",":",":",
        "c","o","i","n",":",":","T">>,
      <<"W","E","T","H">>>>,   \* WETH
    <<
        <<"0","x","f","2","2","b","e","d","e","2","3","7","a","0","7","e","1","2","1","b","5","6",
        "d","9","1","a","4","9","1","e","b","7","b","c","d","f","d","1","f","5","9","0","7","9","2",
        "6","a","9","e","5","8","3","3","8","f","9","6","4","a","0","1","b","1","7","f","a",":",":",
        "a","s","s","e","t",":",":","W","B","T","C">>,
      <<"W","B","T","C">>>>,   \* WBTC
    <<
        <<"0","x","a","e","4","7","8","f","f","7","d","8","3","e","d","0","7","2","d","b","c","5",
        "e","2","6","4","2","5","0","e","6","7","e","f","5","8","f","5","7","c","9","9","d","8","9",
        "b","4","4","7","e","f","d","8","a","0","a","2","e","8","b","2","b","e","7","6","e",":",":",
        "w","b","t","c",":",":","W","B","T","C">>,
      <<"W","B","T","C">>>>,   \* WBTC
    <<
        <<"0","x","1","1","1","a","e","3","e","5","b","c","8","1","6","a","5","e","6","3","c","2",
        "d","a","9","7","d","0","a","a","3","8","8","6","5","1","9","e","0","c","d","5","e","4","b",
        "0","4","6","6","5","9","f","a","3","5","7","9","6","b","d","1","1","5","4","2","a",":",":",
        "a","m","a","p","t","_","t","o","k","e","n",":",":","A","m","n","i","s","A","p","t">>,
      <<"a","m","A","P","T">>>>,   \* amAPT
    <<
        <<"0","x","8","4","d","7","a","e","e","f","4","2","d","3","8","a","5","f","f","c","3","c",
        "c","e","f","8","5","3","e","1","b","8","2","e","4","9","5","8","6","5","9","d","1","6","a",
        "7","d","e","7","3","6","a","2","9","c","5","5","f","b","b","e","b","0","1","1","4",":",":",
        "s","t","a","k","e","d","_","a","p","t","o","s","_","c","o","i","n",":",":","S","t","a","k",
        "e","d","A","p","t","o","s","C","o","i","n">>,
      <<"s","t","A","P","T">>>>,   \* stAPT
    <<
        <<"0","x","d","1","1","1","0","7","b","d","f","0","d","6","d","7","0","4","0","c","6","c",
        "0","b","f","b","d","e","c","b","6","5","4","5","1","9","1","f","d","f","1","3","e","8","d",
        "8","d","2","5","9","9","5","2","f","5","3","e","1","7","1","3","f","6","1","b","5",":",":",
        "s","t","a","k","e","d","_","c","o","i","n",":",":","S","t","a","k","e","d","A","p","t","o",
        "s">>,
      <<"s","t","A","P","T">>>>,   \* stAPT
    <<
        <<"0","x","f","a","f","4","e","6","3","3","a","e","9","e","b","3","1","3","6","6","c","9",
        "c","a","2","4","2","1","4","2","3","1","7","6","0","9","2","6","5","7","6","c","7","b","6",
        "2","5","3","1","3","b","3","6","8","8","b","5","e","9","0","0","7","3","1","f","6",":",":",
        "s","t","a","k","e","d","_","a","p","t","o","s","_","c","o","i","n",":",":","S","t","a","k",
        "e","d","A","p","t","o","s","C","o","i","n">>,
      <<"t","h","A","P","T">>>>,   \* thAPT
    <<
        <<"0","x","8","d","8","7","a","6","5","b","a","3","0","e","0","9","3","5","7","f","a","2",
        "e","d","e","a","2","c","8","0","d","b","a","c","2","9","6","e","5","d","e","c","2","b","1",
        "8","2","8","7","1","1","3","5","0","0","b","9","0","2","9","4","2","9","2","9","d",":",":",
        "c","e","l","e","r","_","c","o","i","n","_","m","a","n","a","g","e","r",":",":","U","s","d",
        "c","C","o","i","n">>,
      <<"c","e","U","S","D","C">>>>,   \* ceUSDC
    <<
        <<"0","x","8","d","8","7","a","6","5","b","a","3","0","e","0","9","3","5","7","f","a","2",
        "e","d","e","a","2","c","8","0","d","b","a","c","2","9","6","e","5","d","e","c","2","b","1",
        "8","2","8","7","1","1","3","5","0","0","b","9","0","2","9","4","2","9","2","9","d",":",":",
        "c","e","l","e","r","_","c","o","i","n","_","m","a","n","a","g","e","r",":",":","U","s","d",
        "t","C","o","i","n">>,
      <<"c","e","U","S","D","T">>>>,   \* ceUSDT
    <<
        <<"0","x","8","d","8","7","a","6","5","b","a","3","0","e","0","9","3","5","7","f","a","2",
        "e","d","e","a","2","c","8","0","d","b","a","c","2","9","6","e","5","d","e","c","2","b","1",
        "8","2","8","7","1","1","3","5","0","0","b","9","0","2","9","4","2","9","2","9","d",":",":",
        "c","e","l","e","r","_","c","o","i","n","_","m","a","n","a","g","e","r",":",":","W","e","t",
        "h","C","o","i","n">>,
      <<"c","e","W","E","T","H">>>>,   \* ceWETH
    <<
        <<"0","x","8","d","8","7","a","6","5","b","a","3","0","e","0","9","3","5","7","f","a","2",
        "e","d","e","a","2","c","8","0","d","b","a","c","2","9","6","e","5","d","e","c","2","b","1",
        "8","2","8","7","1","1","3","5","0","0","b","9","0","2","9","4","2","9","2","9","d",":",":",
        "c","e","l","e","r","_","c","o","i","n","_","m","a","n","a","g","e","r",":",":","W","b","t",
        "c","C","o","i","n">>,
      <<"c","e","W","B","T","C">>>>,   \* ceWBTC
    <<
        <<"0","x","5","e","1","5","6","f","1","2","0","7","d","0","e","b","f","a","1","9","a","9",
        "e","e","f","f","0","0","d","6","2","a","2","8","2","2","7","8","f","b","8","7","1","9","f",
        "4","f","a","b","3","a","5","8","6","a","0","a","2","c","0","f","f","f","b","e","a",":",":",
        "c","o","i","n",":",":","U","S","D","C">>,
      <<"w","h","U","S","D","C">>>>,   \* whUSDC
    <<
        <<"0","x","5","e","1","5","6","f","1","2","0","7","d","0","e","b","f","a","1","9","a","9",
        "e","e","f","f","0","0","d","6","2","a","2","8","2","2","7","8","f","b","8","7","1","9","f",
        "4","f","a","b","3","a","5","8","6","a","0","a","2","c","0","f","f","f","b","e","a",":",":",
        "c","o","i","n",":",":","U","S","D","T">>,
      <<"w","h","U","S","D","T">>>>,   \* whUSDT
    <<
        <<"0","x","5","e","1","5","6","f","1","2","0","7","d","0","e","b","f","a","1","9","a","9",
        "e","e","f","f","0","0","d","6","2","a","2","8","2","2","7","8","f","b","8","7","1","9","f",
        "4","f","a","b","3","a","5","8","6","a","0","a","2","c","0","f","f","f","b","e","a",":",":",
        "c","o","i","n",":",":","W","E","T","H">>,
      <<"w","h","W","E","T","H">>>>,   \* whWETH
    <<
        <<"0","x","1","5","9","d","f","6","b","7","6","8","9","4","3","7","0","1","6","1","0","8",
        "a","0","1","9","f","d","5","b","e","f","7","3","6","b","a","c","6","9","2","b","6","d","4",
        "a","1","f","1","0","c","9","4","1","f","6","f","b","b","9","a","7","4","c","a","6",":",":",
        "o","f","t",":",":","C","a","k","e","O","F","T">>,
      <<"C","A","K","E">>>>,   \* CAKE
    <<
        <<"0","x","6","f","9","8","6","d","1","4","6","e","4","a","9","0","b","8","2","8","d","8",
        "c","1","2","c","1","4","b","6","f","4","e","0","0","3","f","d","f","f","1","1","a","8","e",
        "e","c","c","e","c","e","b","6","3","7","4","4","3","6","3","e","a","a","c","0","1",":",":",
        "m","o","d","_","c","o","i","n",":",":","M","O","D">>,
      <<"M","O","D">>>>,   \* MOD
    <<
        <<"0","x","7","f","d","5","0","0","c","1","1","2","1","6","f","0","f","e","3","0","9","5",
        "d","0","c","4","b","8","a","a","4","d","6","4","a","4","e","2","e","0","4","f","8","3","7",
        "5","8","4","6","2","f","2","b","1","2","7","2","5","5","6","4","3","6","1","5",":",":","t",
        "h","l","_","c","o","i","n",":",":","T","H","L">>,
      <<"T","H","L">>>>,   \* THL
    <<
        <<"0","x","9","7","7","0","f","a","9","c","7","2","5","c","b","d","9","7","e","b","5","0",
        "b","2","b","e","5","f","7","4","1","6","e","f","d","f","d","1","f","1","5","5","4","b","e",
        "b","0","7","5","0","d","4","d","a","e","4","c","6","4","e","8","6","0","d","a","3",":",":",
        "r","e","s","e","r","v","e",":",":","L","P">>,
      <<"a","m","A","P","T","-","A","P","T">>>>,   \* amAPT-APT
    <<
        <<"0","x","e","4","c","c","b","6","d","3","9","1","3","6","4","6","9","f","3","7","6","2",
        "4","2","c","3","1","b","3","4","d","1","0","5","1","5","c","8","e","a","a","a","3","8","0",
        "9","2","f","8","0","4","d","b","8","e","0","8","a","8","f","5","3","c","5","b","2",":",":",
        "a","s","s","e","t","s","_","v","1",":",":","E","c","h","o","C","o","i","n","0","0","2">>,
      <<"G","U","I">>>>,   \* GUI
    <<
        <<"0","x","7","c","0","3","2","2","5","9","5","a","7","3","b","3","f","c","5","3","b","b",
        "1","6","6","f","5","7","8","3","4","7","0","a","f","e","b","1","e","d","9","f","4","6","e",
        "8","3","d","9","e","0","c","f","2","7","e","3","f","1","5","c","4","0","e","3",":",":","a",
        "b","e","l","_","c","o","i","n",":",":","A","b","e","l","C","o","i","n">>,
      <<"A","B","E","L">>>>   \* ABEL
    >>

\* src/token_parser.py: (regex, symbol); every regex is a literal text followed by `$`;
\* the text is kept here
token_parser_TOKEN_PATTERNS == <<
    <<
        <<":",":","a","p","t","o","s","_","c","o","i","n",":",":","A","p","t","o","s","C","o","i",
        "n">>,
      <<"A","P","T">>>>,   \* ::aptos_coin::AptosCoin$
    <<
        <<":",":","a","s","s","e","t",":",":","U","S","D","C">>,
      <<"U","S","D","C">>>>,   \* ::asset::USDC$
    <<
        <<":",":","a","s","s","e","t",":",":","U","S","D","T">>,
      <<"U","S","D","T">>>>,   \* ::asset::USDT$
    <<
        <<":",":","a","s","s","e","t",":",":","W","E","T","H">>,
      <<"W","E","T","H">>>>,   \* ::asset::WETH$
    <<
        <<":",":","a","s","s","e","t",":",":","W","B","T","C">>,
      <<"W","B","T","C">>>>,   \* ::asset::WBTC$
    <<
        <<":",":","a","s","s","e","t",":",":","D","A","I">>,
      <<"D","A","I">>>>,   \* ::asset::DAI$
    <<
        <<"U","s","d","c","C","o","i","n">>,
      <<"c","e","U","S","D","C">>>>,   \* UsdcCoin$
    <<
        <<"U","s","d","t","C","o","i","n">>,
      <<"c","e","U","S","D","T">>>>,   \* UsdtCoin$
    <<
        <<"W","e","t","h","C","o","i","n">>,
      <<"c","e","W","E","T","H">>>>,   \* WethCoin$
    <<
        <<"W","b","t","c","C","o","i","n">>,
      <<"c","e","W","B","T","C">>>>,   \* WbtcCoin$
    <<
        <<"D","a","i","C","o","i","n">>,
      <<"c","e","D","A","I">>>>,   \* DaiCoin$
    <<
        <<"A","m","n","i","s","A","p","t">>,
      <<"a","m","A","P","T">>>>,   \* AmnisApt$
    <<
        <<"S","t","a","k","e","d","A","p","t","o","s","C","o","i","n">>,
      <<"s","t","A","P","T">>>>,   \* StakedAptosCoin$
    <<
        <<"S","t","a","k","e","d","A","p","t","o","s">>,
      <<"s","t","A","P","T">>>>,   \* StakedAptos$
    <<
        <<"T","o","r","t","u","g","a","S","t","a","k","e","d","A","p","t","o","s">>,
      <<"t","A","P","T">>>>,   \* TortugaStakedAptos$
    <<
        <<":",":","c","o","i","n",":",":","U","S","D","C">>,
      <<"w","h","U","S","D","C">>>>,   \* ::coin::USDC$
    <<
        <<":",":","c","o","i","n",":",":","U","S","D","T">>,
      <<"w","h","U","S","D","T">>>>,   \* ::coin::USDT$
    <<
        <<":",":","c","o","i","n",":",":","W","E","T","H">>,
      <<"w","h","W","E","T","H">>>>,   \* ::coin::WETH$
    <<
        <<":",":","c","o","i","n",":",":","T">>,
      <<"W","E","T","H">>>>,   \* ::coin::T$
    <<
        <<"C","a","k","e","O","F","T">>,
      <<"C","A","K","E">>>>,   \* CakeOFT$
    <<
        <<":",":","m","o","d","_","c","o","i","n",":",":","M","O","D">>,
      <<"M","O","D">>>>,   \* ::mod_coin::MOD$
    <<
        <<":",":","t","h","l","_","c","o","i","n",":",":","T","H","L">>,
      <<"T","H","L">>>>   \* ::thl_coin::THL$
    >>

\* bot/adapters/hyperion.py: (identifier, symbol) in the order of the dict literal
KNOWN_TOKENS == <<
    <<
        <<"0","x","1",":",":","a","p","t","o","s","_","c","o","i","n",":",":","A","p","t","o","s",
        "C","o","i","n">>,
      <<"A","P","T">>>>,   \* APT
    <<
        <<"0","x","f","2","2","b","e","d","e","2","3","7","a","0","7","e","1","2","1","b","5","6",
        "d","9","1","a","4","9","1","e","b","7","b","c","d","f","d","1","f","5","9","0","7","9","2",
        "6","a","9","e","5","8","3","3","8","f","9","6","4","a","0","1","b","1","7","f","a",":",":",
        "a","s","s","e","t",":",":","U","S","D","C">>,
      <<"U","S","D","C">>>>,   \* USDC
    <<
        <<"0","x","5","e","1","5","6","f","1","2","0","7","d","0","e","b","f","a","1","9","a","9",
        "e","e","f","f","0","0","d","6","2","a","2","8","2","2","7","8","f","b","8","7","1","9","f",
        "4","f","a","b","3","a","5","8","6","a","0","a","2","c","0","f","f","f","b","e","a",":",":",
        "c","o","i","n",":",":","T">>,
      <<"U","S","D","C">>>>,   \* USDC
    <<
        <<"0","x","3","5","7","b","0","b","7","4","b","c","8","3","3","e","9","5","a","1","1","5",
        "a","d","2","2","6","0","4","8","5","4","d","6","b","0","f","c","a","1","5","1","c","e","c",
        "d","9","4","1","1","1","7","7","0","e","5","d","6","f","f","c","9","d","c","2","b",":",":",
        "c","o","i","n",":",":","T">>,
      <<"U","S","D","T">>>>,   \* USDT
    <<
        <<"0","x","f","2","2","b","e","d","e","2","3","7","a","0","7","e","1","2","1","b","5","6",
        "d","9","1","a","4","9","1","e","b","7","b","c","d","f","d","1","f","5","9","0","7","9","2",
        "6","a","9","e","5","8","3","3","8","f","9","6","4","a","0","1","b","1","7","f","a",":",":",
        "a","s","s","e","t",":",":","W","E","T","H">>,
      <<"W","E","T","H">>>>,   \* WETH
    <<
        <<"0","x","a","e","4","7","8","f","f","7","d","8","3","e","d","0","7","2","d","b","c","5",
        "e","2","6","4","2","5","0","e","6","7","e","f","5","8","f","5","7","c","9","9","d","8","9",
        "b","4","4","7","e","f","d","8","a","0","a","2","e","8","b","2","b","e","7","6","e",":",":",
        "c","o","i","n",":",":","T">>,
      <<"z","U","S","D","C">>>>,   \* zUSDC
    <<
        <<"0","x","1","0","0","0","0","0","0","f","a","3","2","d","1","2","2","c","1","8","a","6",
        "a","3","1","c","0","0","9","c","e","5","e","7","1","6","7","4","f","2","2","d","0","6","a",
        "5","8","1","b","b","0","a","1","5","5","7","5","e","6","a","d","d","a","d","c","c",":",":",
        "u","s","d","a",":",":","U","S","D","A">>,
      <<"U","S","D","A">>>>,   \* USDA
    <<
        <<"0","x","1","1","1","a","e","3","e","5","b","c","8","1","6","a","5","e","6","3","c","2",
        "d","a","9","7","d","0","a","a","3","8","8","6","5","1","9","e","0","c","d","5","e","4","b",
        "0","4","6","6","5","9","f","a","3","5","7","9","6","b","d","1","1","5","4","2","a",":",":",
        "a","m","a","p","t","_","t","o","k","e","n",":",":","A","m","n","i","s","A","p","t">>,
      <<"a","m","A","P","T">>>>,   \* amAPT
    <<
        <<"0","x","d","1","1","1","0","7","b","d","f","0","d","6","d","7","0","4","0","c","6","c",
        "0","b","f","b","d","e","c","b","6","5","4","5","1","9","1","f","d","f","1","3","e","8","d",
        "8","d","2","5","9","9","5","2","f","5","3","e","1","7","1","3","f","6","1","b","5",":",":",
        "s","t","a","k","e","d","_","c","o","i","n",":",":","S","t","a","k","e","d","A","p","t","o",
        "s">>,
      <<"s","t","A","P","T">>>>,   \* stAPT
    <<
        <<"0","x","6","f","9","8","6","d","1","4","6","e","4","a","9","0","b","8","2","8","d","8",
        "c","1","2","c","1","4","b","6","f","4","e","0","0","3","f","d","f","f","1","1","a","8","e",
        "e","c","c","e","c","e","b","6","3","7","4","4","3","6","3","e","a","a","c","0","1",":",":",
        "m","o","d","_","c","o","i","n",":",":","M","O","D">>,
      <<"M","O","D">>>>,   \* MOD
    <<
        <<"0","x","7","f","d","5","0","0","c","1","1","2","1","6","f","0","f","e","3","0","9","5",
        "d","0","c","4","b","8","a","a","4","d","6","4","a","4","e","2","e","0","4","f","8","3","7",
        "5","8","4","6","2","f","2","b","1","2","7","2","5","5","6","4","3","6","1","5",":",":","t",
        "h","l","_","c","o","i","n",":",":","T","H","L">>,
      <<"T","H","L">>>>   \* THL
    >>

\* bot/adapters/hyperion.py: (FA address, symbol) in the order of the dict literal
FA_TO_SYMBOL == <<
    <<
        <<"0","x","0","0","0","0","0","0","0","0","0","0","0","0","0","0","0","0","0","0","0","0",
        "0","0","0","0","0","0","0","0","0","0","0","0","0","0","0","0","0","0","0","0","0","0","0",
        "0","0","0","0","0","0","0","0","0","0","0","0","0","0","0","0","0","0","0","0","a">>,
      <<"A","P","T">>>>,   \* APT
    <<
        <<"0","x","0","0","0","9","d","a","4","3","4","d","9","b","8","7","3","b","5","1","5","9",
        "e","8","e","e","e","d","7","0","2","0","2","a","d","2","2","d","c","0","7","5","8","6","7",
        "a","7","7","9","3","2","3","4","f","b","c","9","8","1","b","6","3","e","1","1","9">>,
      <<"A","P","T">>>>,   \* APT
    <<
        <<"0","x","b","a","e","2","0","7","6","5","9","d","b","8","8","b","e","a","0","c","b","e",
        "a","d","6","d","a","0","e","d","0","0","a","a","c","1","2","e","d","c","d","d","a","1","6",
        "9","e","5","9","1","c","d","4","1","c","9","4","1","8","0","b","4","6","f","3","b">>,
      <<"U","S","D","C">>>>,   \* USDC
    <<
        <<"0","x","3","5","7","b","0","b","7","4","b","c","8","3","3","e","9","5","a","1","1","5",
        "a","d","2","2","6","0","4","8","5","4","d","6","b","0","f","c","a","1","5","1","c","e","c",
        "d","9","4","1","1","1","7","7","0","e","5","d","6","f","f","c","9","d","c","2","b">>,
      <<"U","S","D","T">>>>,   \* USDT
    <<
        <<"0","x","3","7","7","a","d","c","4","8","4","8","5","5","2","e","b","2","e","a","1","7",
        "2","5","9","b","e","9","2","8","0","0","1","9","2","3","e","f","e","1","2","2","7","1","f",
        "e","f","1","6","6","7","e","2","b","7","8","4","f","0","4","a","7","c","f","3","a">>,
      <<"U","S","D","t">>>>,   \* USDt
    <<
        <<"0","x","8","1","2","1","4","a","8","0","d","8","2","0","3","5","a","1","9","0","f","c",
        "b","7","6","b","6","f","f","3","c","0","1","4","5","1","6","1","c","3","a","9","f","3","3",
        "d","1","3","7","f","2","b","b","a","e","e","4","c","f","e","c","8","a","3","8","7">>,
      <<"W","B","T","C">>>>,   \* WBTC
    <<
        <<"0","x","6","8","8","4","4","a","0","d","7","f","2","5","8","7","e","7","2","6","a","d",
        "0","5","7","9","f","3","d","6","4","0","8","6","5","b","b","4","1","6","2","c","0","8","a",
        "4","5","8","9","e","e","d","a","3","f","9","6","8","9","e","c","5","2","a","3","d">>,
      <<"s","U","S","D","e">>>>,   \* sUSDe
    <<
        <<"0","x","8","2","1","c","9","4","e","6","9","b","c","7","c","a","0","5","8","c","9","1",
        "3","b","7","b","5","e","6","b","0","a","5","c","9","f","d","1","5","2","3","d","5","8","7",
        "2","3","a","9","6","6","f","b","8","c","1","f","5","e","a","8","8","8","1","0","5">>,
      <<"k","A","P","T">>>>,   \* kAPT
    <<
        <<"0","x","0","5","f","a","b","d","1","b","1","2","e","3","9","9","6","7","a","3","c","2",
        "4","e","9","1","b","7","b","8","f","6","7","7","1","9","a","6","d","a","c","e","e","7","4",
        "f","3","c","8","b","9","f","b","7","d","9","3","e","8","5","5","4","3","7","d","2">>,
      <<"?","?","?">>>>,   \* ???
    <<
        <<"0","x","b","3","0","a","6","9","4","a","3","4","4","e","d","e","e","4","6","7","d","9",
        "f","8","2","3","3","0","b","b","e","7","c","3","b","8","9","f","4","4","0","a","1","e","c",
        "d","2","d","a","1","f","3","b","c","a","2","6","6","5","6","0","f","c","e","6","9">>,
      <<"?","?","?">>>>   \* ???
    >>

\* dict lookup in a table of (key, value) pairs whose keys are distinct
Lookup(table, key) ==
    table[CHOOSE i \in 1..Len(table) : table[i][1] = key][2]

InTable(table, key) == \E i \in 1..Len(table) : table[i][1] = key

\* re.search(text + '$', s): `$` matches at the end of s and just before a
\* newline that ends s
pattern_matches_case(text, s) ==
    \/ endswith(s, text)
    \/ /\ s # <<>>
       /\ s[Len(s)] = "\n"
       /\ endswith(SubSeq(s, 1, Len(s) - 1), text)

\* src/token_parser.py: parse_token_symbol_from_address(address), address a str
token_parser_parse_token_symbol_from_address(token_address) ==
    LET address == strip(token_address)
        parts == split(address, <<":",":">>)
        module == parts[Len(parts) - 1]
        type_name == parts[Len(parts)]
        base == SubSeq(type_name, 1, Len(type_name) - 4)
        type_upper == upper(type_name)
        known == <<<<"U","S","D","C">>, <<"U","S","D","T">>, <<"W","E","T","H">>, <<"W","B","T","C">>, <<"D","A","I">>, <<"A","P","T">>>>
        found == {k \in 1..Len(known) : contains(type_upper, known[k])}
    IN  IF token_address = <<>> THEN <<"U","N","K","N","O","W","N">>
        ELSE IF Len(parts) >= 3
        THEN IF type_name = <<"A","p","t","o","s","C","o","i","n">> THEN <<"A","P","T">>
             ELSE IF module = <<"a","s","s","e","t">> THEN upper(type_name)
             ELSE IF module = <<"c","o","i","n">> /\ type_name = <<"T">>
                  THEN IF contains(parts[1], <<"5","e","1","5","6","f","1","2","0","7","d","0","e","b","f","a">>) THEN <<"W","E","T","H">> ELSE <<"C","O","I","N">>
             ELSE IF contains(type_name, <<"S","t","a","k","e","d">>)
                  THEN IF contains(type_name, <<"A","m","n","i","s">>) THEN <<"a","m","A","P","T">>
                       ELSE IF contains(type_name, <<"T","o","r","t","u","g","a">>) THEN <<"t","A","P","T">>
                       ELSE <<"s","t","A","P","T">>
             ELSE IF type_name = <<"A","m","n","i","s","A","p","t">> THEN <<"a","m","A","P","T">>
             ELSE IF endswith(type_name, <<"C","o","i","n">>) /\ Len(type_name) > 4
                  THEN IF upper(base) \in {<<"U","S","D","C">>, <<"U","S","D","T">>, <<"W","E","T","H">>, <<"W","B","T","C">>, <<"D","A","I">>}
                       THEN <<"c","e">> \o upper(base)
                       ELSE upper(base)
             ELSE IF type_name = <<"C","a","k","e","O","F","T">> THEN <<"C","A","K","E">>
             ELSE IF module = <<"m","o","d","_","c","o","i","n">> THEN <<"M","O","D">>
             ELSE IF module = <<"t","h","l","_","c","o","i","n">> THEN <<"T","H","L">>
             ELSE IF found # {} THEN known[CHOOSE k \in found : \A j \in found : k <= j]
             ELSE upper(slice(type_name, 0, 8))
        ELSE IF startswith(address, <<"0","x">>)
             THEN <<"0","x">> \o slice(address, 2, 8)
             ELSE slice(address, 0, 10)

\* src/token_parser.py: the tier that answers get_token_symbol(address) for a
\* non-empty str; registry is token_parser's TOKEN_REGISTRY as it stands
token_parser_resolution_tier(registry, address) ==
    IF InTable(registry, address) THEN "registry"
    ELSE IF \E i \in 1..Len(token_parser_TOKEN_PATTERNS) :
                pattern_matches_case(token_parser_TOKEN_PATTERNS[i][1], address)
    THEN "pattern"
    ELSE "parsed"

\* src/token_parser.py: get_token_symbol(address)'s return value; address is
\* a JSON value (None or a str)
token_parser_get_token_symbol(registry, address) ==
    IF ~truthy(address) THEN <<"U","N","K","N","O","W","N">>
    ELSE LET matched == {i \in 1..Len(token_parser_TOKEN_PATTERNS) :
                            pattern_matches_case(token_parser_TOKEN_PATTERNS[i][1], address.s)}
         IN  IF InTable(registry, address.s) THEN Lookup(registry, address.s)
             ELSE IF matched # {}
             THEN token_parser_TOKEN_PATTERNS[CHOOSE i \in matched : \A j \in matched : i <= j][2]
             ELSE token_parser_parse_token_symbol_from_address(address.s)

\* src/token_parser.py lines 187-190: TOKEN_REGISTRY after get_token_symbol(address)
token_parser_registry_after(registry, address) ==
    IF truthy(address) /\ token_parser_resolution_tier(registry, address.s) = "pattern"
    THEN Append(registry, <<address.s, token_parser_get_token_symbol(registry, address)>>)
    ELSE registry

\* src/token_parser.py lines 195-197: get_token_symbol(address) writes a log record
token_parser_get_token_symbol_logs(registry, address) ==
    /\ truthy(address)
    /\ token_parser_resolution_tier(registry, address.s) = "parsed"
    /\ startswith(token_parser_get_token_symbol(registry, address), <<"0","x">>)

\* bot/adapters/hyperion.py: HyperionAdapter._get_symbol_from_fa(fa_address)
HyperionAdapter_get_symbol_from_fa(fa_address) ==
    IF ~truthy(fa_address) THEN <<"?","?","?">>
    ELSE LET clean == strip(lower(fa_address.s))
         IN  IF InTable(FA_TO_SYMBOL, clean) THEN Lookup(FA_TO_SYMBOL, clean)
             ELSE IF Len(clean) > 6 THEN <<"0","x">> \o last_chars(clean, 6)
             ELSE clean

\* bot/adapters/hyperion.py lines 306-310: the KNOWN_TOKENS entries that
\* contain token_address or are contained in it, letter case aside
HyperionAdapter_fallback_partial(token_address) ==
    {i \in 1..Len(KNOWN_TOKENS) :
         \/ contains(lower(token_address), lower(KNOWN_TOKENS[i][1]))
         \/ contains(lower(KNOWN_TOKENS[i][1]), lower(token_address))}

\* line 320
HyperionAdapter_fallback_token_name(token_address) ==
    LET parts == split(token_address, <<":",":">>)
    IN  replace(replace(replace(parts[Len(parts)], <<"C","o","i","n">>, <<>>), <<"T","o","k","e","n">>, <<>>),
                <<"_","t","o","k","e","n">>, <<>>)

\* lines 322-337: <<symbol>> of the first rule that recognises the name, or <<>>
HyperionAdapter_fallback_rule(token_address) ==
    LET token_name_lower == lower(HyperionAdapter_fallback_token_name(token_address))
    IN  IF contains(token_name_lower, <<"u","s","d","c">>) THEN <<<<"U","S","D","C">>>>
        ELSE IF contains(token_name_lower, <<"u","s","d","t">>) THEN <<<<"U","S","D","T">>>>
        ELSE IF contains(token_name_lower, <<"a","p","t">>) /\ contains(lower(token_address), <<"a","p","t","o","s">>)
             THEN <<<<"A","P","T">>>>
        ELSE IF contains(token_name_lower, <<"w","e","t","h">>) THEN <<<<"W","E","T","H">>>>
        ELSE IF contains(token_name_lower, <<"w","b","t","c">>) THEN <<<<"W","B","T","C">>>>
        ELSE IF contains(token_name_lower, <<"b","t","c">>) THEN <<<<"W","B","T","C">>>>
        ELSE IF contains(token_name_lower, <<"e","t","h">>) THEN <<<<"W","E","T","H">>>>
        ELSE <<>>

\* lines 302-359: the step of _get_token_symbol_fallback that answers for a
\* non-empty str: the mapping, a name rule, the cleaned name, the short address
HyperionAdapter_fallback_tier(token_address) ==
    LET token_name == HyperionAdapter_fallback_token_name(token_address)
    IN  IF InTable(KNOWN_TOKENS, token_address) THEN "registry"
        ELSE IF HyperionAdapter_fallback_partial(token_address) # {} THEN "registry"
        ELSE IF Len(split(token_address, <<":",":">>)) < 3 THEN "opaque"
        ELSE IF HyperionAdapter_fallback_rule(token_address) # <<>> THEN "pattern"
        ELSE IF token_name # <<>> /\ Len(token_name) <= 10 THEN "heuristic"
        ELSE "opaque"

\* lines 299-341: the symbol that _get_token_symbol_fallback returns before
\* its logging step, <<symbol>>, or <<>> where it goes on to line 343
HyperionAdapter_fallback_known(token_address) ==
    LET partial == HyperionAdapter_fallback_partial(token_address)
        tier == HyperionAdapter_fallback_tier(token_address)
    IN  IF InTable(KNOWN_TOKENS, token_address) THEN <<Lookup(KNOWN_TOKENS, token_address)>>
        ELSE IF partial # {}
        THEN <<KNOWN_TOKENS[CHOOSE i \in partial : \A j \in partial : i <= j][2]>>
        ELSE IF tier = "pattern" THEN HyperionAdapter_fallback_rule(token_address)
        ELSE IF tier = "heuristic"
        THEN <<upper(HyperionAdapter_fallback_token_name(token_address))>>
        ELSE <<>>

\* bot/adapters/hyperion.py: _get_token_symbol_fallback(token_address)'s
\* return value; token_address is a JSON value (None or a str)
HyperionAdapter_get_token_symbol_fallback(token_address) ==
    IF ~truthy(token_address) THEN <<"U","N","K","N","O","W","N">>
    ELSE LET known == HyperionAdapter_fallback_known(token_address.s)
             address == token_address.s
         IN  IF known # <<>> THEN known[1]
             ELSE IF Len(address) <= 20
             THEN IF Len(address) >= 8 THEN slice(address, 0, 8) ELSE address
             ELSE IF startswith(address, <<"0","x">>) THEN slice(address, 0, 10)
             ELSE <<"0","x">> \o slice(address, 0, 6)

\* bot/adapters/hyperion.py lines 343-349: the call reaches the logging step
HyperionAdapter_fallback_unknown(token_address) ==
    truthy(token_address) /\ HyperionAdapter_fallback_known(token_address.s) = <<>>

----------------------------------------------------------------------------
(* bot/utils/fee_tier.py                                                   *)

RECURSIVE str_int(_)
\* str(n) for n >= 0
str_int(n) ==
    IF n < 10 THEN <<Digits[n + 1]>>
    ELSE str_int(n \div 10) \o <<Digits[(n % 10) + 1]>>

\* f"{fee_rate / 10000:.2f}%"; the fee rates of the model are multiples of
\* 100, for which the two decimals are exact
format_fee_tier(fee_rate) ==
    IF fee_rate = 0 THEN <<"N","/","A">>
    ELSE LET hundredths == (fee_rate + 50) \div 100
         IN  str_int(hundredths \div 100) \o <<".">>
             \o <<Digits[((hundredths \div 10) % 10) + 1], Digits[(hundredths % 10) + 1]>>
             \o <<"%">>

----------------------------------------------------------------------------
(* bot/utils/hyperion_enhanced.py: HyperionAPI                              *)

CACHE_TTL == 60

MIN_TVL_USD == 100000

MIN_VOLUME_USD == 50000

\* int(v) of a JSON number or digit string; it raises where float(v) does
int_raises(v) == float_raises(v)

int(v) == float(v)

\* the condition of the active_pools comprehension raises for pool p
HyperionAPI_active_raises(p) ==
    \/ float_raises(Get(p, "tvlUSD", Num(0)))
    \/ /\ float(Get(p, "tvlUSD", Num(0))) >= MIN_TVL_USD
       /\ float_raises(Get(p, "dailyVolumeUSD", Num(0)))

HyperionAPI_is_active(p) ==
    /\ float(Get(p, "tvlUSD", Num(0))) >= MIN_TVL_USD
    /\ float(Get(p, "dailyVolumeUSD", Num(0))) >= MIN_VOLUME_USD

\* pool.get("pool", {}) must be a dict for pool_info.get to exist
HyperionAPI_enrich_raises(pool) ==
    LET pool_info == Get(pool, "pool", Obj(<<>>))
    IN  \/ pool_info.t # "obj"
        \/ int_raises(Get(pool_info.o, "feeRate", Num(0)))
        \/ float_raises(Get(pool, "feeAPR", Num(0)))
        \/ float_raises(Get(pool, "farmAPR", Num(0)))
        \/ get_token_symbol_raises(Get(pool_info.o, "token1", Str(<<>>)))
        \/ get_token_symbol_raises(Get(pool_info.o, "token2", Str(<<>>)))

HyperionAPI_enrich_pool(pool) ==
    LET pool_info == Get(pool, "pool", Obj(<<>>)).o
        fee_rate == int(Get(pool_info, "feeRate", Num(0)))
        fee_apr == float(Get(pool, "feeAPR", Num(0)))
        farm_apr == float(Get(pool, "farmAPR", Num(0)))
        total_apr == fee_apr + farm_apr
        token_a_address == Get(pool_info, "token1", Str(<<>>))
        token_b_address == Get(pool_info, "token2", Str(<<>>))
    IN  Merge(pool,
              [token_a          |-> Str(get_token_symbol(token_a_address)),
               token_b          |-> Str(get_token_symbol(token_b_address)),
               fee_tier_display |-> Str(format_fee_tier(fee_rate)),
               fee_tier_value   |-> Num(fee_rate),
               total_apr        |-> Num(total_apr),
               has_farm         |-> Bool(farm_apr > 0),
               apr_change       |-> Str(IF total_apr > 100 THEN <<"+","1">> ELSE <<"0">>)])

\* what one _enrich_pool(pool) call adds to _logged_unknown_tokens before it
\* returns or raises: token1 is resolved before token2, after the numbers
HyperionAPI_enrich_logs(pool) ==
    LET pool_info == Get(pool, "pool", Obj(<<>>))
        token_a_address == Get(pool_info.o, "token1", Str(<<>>))
        token_b_address == Get(pool_info.o, "token2", Str(<<>>))
    IN  IF \/ pool_info.t # "obj"
           \/ int_raises(Get(pool_info.o, "feeRate", Num(0)))
           \/ float_raises(Get(pool, "feeAPR", Num(0)))
           \/ float_raises(Get(pool, "farmAPR", Num(0)))
           \/ get_token_symbol_raises(token_a_address)
        THEN {}
        ELSE get_token_symbol_logs(token_a_address)
             \cup (IF get_token_symbol_raises(token_b_address) THEN {}
                   ELSE get_token_symbol_logs(token_b_address))

\* _fetch_pools_from_api on an upstream answer: a transport error or timeout
\* (status 0), a status other than 200 and a GraphQL `errors` member raise
HyperionAPI_fetch_raises(response) ==
    response.status # 200 \/ response.errors

HyperionAPI_fetch_pools_from_api(response) == response.getPoolStat

\* lines 50-70 of get_all_pools on the upstream answer: whether the try block
\* raises, the enriched list, and the identifiers logged on the way
HyperionAPI_try(response) ==
    LET raw_pools == HyperionAPI_fetch_pools_from_api(response)
        filter_raises == \E i \in 1..Len(raw_pools) : HyperionAPI_active_raises(raw_pools[i])
        active_pools == SelectSeq(raw_pools, HyperionAPI_is_active)
        bad == {i \in 1..Len(active_pools) : HyperionAPI_enrich_raises(active_pools[i])}
        reached == IF bad = {} THEN Len(active_pools)
                   ELSE CHOOSE i \in bad : \A j \in bad : i <= j
    IN  IF HyperionAPI_fetch_raises(response) \/ filter_raises
        THEN [raised |-> TRUE, pools |-> <<>>, logged |-> {}]
        ELSE [raised |-> bad # {},
              pools  |-> IF bad # {} THEN <<>>
                         ELSE [i \in 1..Len(active_pools) |->
                                   HyperionAPI_enrich_pool(active_pools[i])],
              logged |-> UNION {HyperionAPI_enrich_logs(active_pools[i]) : i \in 1..reached}]

----------------------------------------------------------------------------
(* bot/utils/bluefin_enhanced.py: BluefinAPI                                *)

\* _fetch_pools_from_api is a placeholder without an upstream request: it
\* returns [] and never suspends
BluefinAPI_fetch_pools_from_api == <<>>

BluefinAPI_tvl(p) == Get(p, "tvlUSD", Get(p, "tvl", Num(0)))

BluefinAPI_active_raises(p) ==
    \/ float_raises(BluefinAPI_tvl(p))
    \/ /\ float(BluefinAPI_tvl(p)) > 0
       /\ float_raises(Get(p, "volume24h", Get(p, "volume", Num(0))))

BluefinAPI_is_active(p) ==
    /\ float(BluefinAPI_tvl(p)) > 0
    /\ float(Get(p, "volume24h", Get(p, "volume", Num(0)))) > 0

\* pool.get('tokenA', {}).get('symbol', '???') is evaluated as the default
\* argument whether or not token0 is present
BluefinAPI_enrich_raises(pool) ==
    \/ Get(pool, "tokenA", Obj(<<>>)).t # "obj"
    \/ Get(pool, "tokenB", Obj(<<>>)).t # "obj"
    \/ float_raises(BluefinAPI_tvl(pool))
    \/ float_raises(Get(pool, "volume24h", Get(pool, "volume24H", Get(pool, "volume", Num(0)))))
    \/ float_raises(Get(pool, "fees24h", Get(pool, "fees24H", Get(pool, "fees", Num(0)))))
    \/ int_raises(Get(pool, "feeRate", Get(pool, "fee", Num(0))))
    \/ float_raises(Get(pool, "feeAPR", Get(pool, "apr", Num(0))))
    \/ float_raises(Get(pool, "farmAPR", Num(0)))

BluefinAPI_enrich_pool(pool) ==
    LET pool_id == Get(pool, "id", Get(pool, "address", Str(<<>>)))
        token_a_symbol == Get(pool, "token0",
                              Get(Get(pool, "tokenA", Obj(<<>>)).o, "symbol", Str(<<"?","?","?">>)))
        token_b_symbol == Get(pool, "token1",
                              Get(Get(pool, "tokenB", Obj(<<>>)).o, "symbol", Str(<<"?","?","?">>)))
        tvl == float(BluefinAPI_tvl(pool))
        volume_24h == float(Get(pool, "volume24h", Get(pool, "volume24H", Get(pool, "volume", Num(0)))))
        fees_24h == float(Get(pool, "fees24h", Get(pool, "fees24H", Get(pool, "fees", Num(0)))))
        fee_rate_in == int(Get(pool, "feeRate", Get(pool, "fee", Num(0))))
        fee_rate == IF fee_rate_in > 0 /\ fee_rate_in < 100 THEN fee_rate_in * 10000 ELSE fee_rate_in
        fee_apr == float(Get(pool, "feeAPR", Get(pool, "apr", Num(0))))
        farm_apr == float(Get(pool, "farmAPR", Num(0)))
        total_apr == fee_apr + farm_apr
    IN  Merge(pool,
              [pool_address     |-> pool_id,
               token_a          |-> token_a_symbol,
               token_b          |-> token_b_symbol,
               tvlUSD           |-> Num(tvl),
               dailyVolumeUSD   |-> Num(volume_24h),
               feesUSD          |-> Num(fees_24h),
               fee_tier_display |-> Str(format_fee_tier(fee_rate)),
               fee_tier_value   |-> Num(fee_rate),
               feeAPR           |-> Num(fee_apr),
               farmAPR          |-> Num(farm_apr),
               total_apr        |-> Num(total_apr),
               has_farm         |-> Bool(farm_apr > 0)])

\* lines 52-72 of get_all_pools
BluefinAPI_try ==
    LET raw_pools == BluefinAPI_fetch_pools_from_api
        filter_raises == \E i \in 1..Len(raw_pools) : BluefinAPI_active_raises(raw_pools[i])
        active_pools == SelectSeq(raw_pools, BluefinAPI_is_active)
    IN  IF filter_raises \/ \E i \in 1..Len(active_pools) : BluefinAPI_enrich_raises(active_pools[i])
        THEN [raised |-> TRUE, pools |-> <<>>, logged |-> {}]
        ELSE [raised |-> FALSE,
              pools  |-> [i \in 1..Len(active_pools) |-> BluefinAPI_enrich_pool(active_pools[i])],
              logged |-> {}]

----------------------------------------------------------------------------
(* The upstream answers the adapters are run against.                      *)

TOKEN_APT == TOKEN_REGISTRY[1][1]    \* 0x1::aptos_coin::AptosCoin

FA_APT == TOKEN_REGISTRY[12][1]      \* 0x00..0a

FA_USDT == TOKEN_REGISTRY[15][1]     \* 0x357b.. -> USDT

FA_USDt == TOKEN_REGISTRY[16][1]     \* 0x377a.. -> USDt

TOKEN_FOO == <<"0","x","d","e","a","d","b","e","e","f",":",":","m","o","d",":",":","F","o","o">>

\* one getPoolStat record
PoolStat(id, tvl, volume, fee_apr, farm_apr, token1, token2, fee_rate) ==
    [id             |-> Str(id),
     tvlUSD         |-> tvl,
     dailyVolumeUSD |-> volume,
     feesUSD        |-> Num(0),
     feeAPR         |-> fee_apr,
     farmAPR        |-> farm_apr,
     pool           |-> Obj([token1 |-> token1, token2 |-> token2, feeRate |-> fee_rate])]

PoolAptUsdt ==
    PoolStat(<<"1">>, Num(2 * MIN_TVL_USD), Num(MIN_VOLUME_USD + 1), Num(5), Num(0),
             Str(TOKEN_APT), Str(FA_USDT), Num(500))

\* at both floors, the amounts as digit strings, the symbols in the other order
PoolUsdtApt ==
    PoolStat(<<"2">>, Str(str_int(MIN_TVL_USD)), Str(str_int(MIN_VOLUME_USD)), Num(10), Num(20),
             Str(FA_USDt), Str(FA_APT), Num(2500))

\* a token the registry and the patterns do not know
PoolFooApt ==
    PoolStat(<<"3">>, Num(3 * MIN_TVL_USD), Num(2 * MIN_VOLUME_USD), Num(150), Num(0),
             Str(TOKEN_FOO), Str(TOKEN_APT), Num(100))

\* below the TVL floor
PoolInactive ==
    PoolStat(<<"4">>, Num(MIN_TVL_USD - 1), Num(2 * MIN_VOLUME_USD), Num(1), Num(0),
             Str(TOKEN_APT), Str(FA_USDT), Num(500))

\* malformed: tvlUSD is null
PoolNullTvl ==
    PoolStat(<<"5">>, Null, Num(2 * MIN_VOLUME_USD), Num(1), Num(0),
             Str(TOKEN_APT), Str(FA_USDT), Num(500))

\* malformed: farmAPR is no number
PoolBadFarmApr ==
    PoolStat(<<"6">>, Num(2 * MIN_TVL_USD), Num(2 * MIN_VOLUME_USD), Num(1), Str(<<"n","/","a">>),
             Str(TOKEN_APT), Str(FA_USDT), Num(500))

\* the upstream fails: transport error or timeout, HTTP 500, GraphQL errors
FailedResponses ==
    {[status |-> 0, errors |-> FALSE, getPoolStat |-> <<>>],
     [status |-> 500, errors |-> FALSE, getPoolStat |-> <<>>],
     [status |-> 200, errors |-> TRUE, getPoolStat |-> <<>>]}

Answer(raw_pools) == [status |-> 200, errors |-> FALSE, getPoolStat |-> raw_pools]

\* the answers the cache is exercised with: no pool, no active pool, one and
\* two active pools, a malformed record beside a well-formed one
CacheResponses ==
    FailedResponses
    \cup {Answer(<<>>), Answer(<<PoolInactive>>), Answer(<<PoolAptUsdt>>),
          Answer(<<PoolUsdtApt, PoolAptUsdt>>), Answer(<<PoolAptUsdt, PoolNullTvl>>),
          Answer(<<PoolBadFarmApr, PoolAptUsdt>>)}


\* the answers search_token is exercised with
SearchResponses ==
    FailedResponses
    \cup {Answer(<<>>), Answer(<<PoolAptUsdt>>), Answer(<<PoolUsdtApt, PoolAptUsdt>>),
          Answer(<<PoolUsdtApt, PoolFooApt, PoolAptUsdt>>), Answer(<<PoolFooApt, PoolInactive>>),
          Answer(<<PoolAptUsdt, PoolNullTvl>>)}

HyperionResponses == CacheResponses \cup SearchResponses

HyperionTried == [response \in HyperionResponses |-> HyperionAPI_try(response)]

----------------------------------------------------------------------------
(* get_all_pools as a coroutine: it suspends at the await of                *)
(* _fetch_pools_from_api (HyperionAPI), where other coroutines run.        *)

Adapters == {"hyperion", "bluefin"}

Callers == {"c1", "c2"}

MaxTime == 60

TickStep == CACHE_TTL \div 2

NoCall ==
    [pc |-> "idle", api |-> "hyperion", force_refresh |-> FALSE, current_time |-> 0,
     upstream |-> "none", outcome |-> "none", result |-> <<>>]

\* the fields of one adapter instance
Self(api) == [cache |-> _cache[api], timestamp |-> _cache_timestamp[api]]

\* `self._cache` as a condition: None and [] are both false
cache_truthy(self) == self.cache # <<>> /\ self.cache[1] # <<>>

\* line 46
cache_hit(self, force_refresh, current_time) ==
    /\ ~force_refresh
    /\ cache_truthy(self)
    /\ current_time - self.timestamp < CACHE_TTL

\* after_try with an except branch that serves the cache only while it is fresh
after_try_fresh_only(self, current_time, tried) ==
    IF ~tried.raised
    THEN [self |-> [cache |-> <<tried.pools>>, timestamp |-> current_time],
          outcome |-> "fetched", result |-> tried.pools]
    ELSE IF cache_truthy(self) /\ current_time - self.timestamp < CACHE_TTL
    THEN [self |-> self, outcome |-> "stale", result |-> self.cache[1]]
    ELSE [self |-> self, outcome |-> "raised", result |-> <<>>]

\* after_try with an except branch that restarts the TTL when it serves the
\* stale cache
after_try_stamps_failure(self, current_time, tried) ==
    IF ~tried.raised
    THEN [self |-> [cache |-> <<tried.pools>>, timestamp |-> current_time],
          outcome |-> "fetched", result |-> tried.pools]
    ELSE IF cache_truthy(self)
    THEN [self |-> [cache |-> self.cache, timestamp |-> current_time],
          outcome |-> "stale", result |-> self.cache[1]]
    ELSE [self |-> self, outcome |-> "raised", result |-> <<>>]

\* lines 50-78 once the try block has run with outcome `tried` (of *_try):
\* the instance's fields afterwards, how the call ends and what it returns
after_try(self, current_time, tried) ==
    IF ~tried.raised
    THEN [self |-> [cache |-> <<tried.pools>>, timestamp |-> current_time],
          outcome |-> "fetched", result |-> tried.pools]
    ELSE IF cache_truthy(self)
    THEN [self |-> self, outcome |-> "stale", result |-> self.cache[1]]
    ELSE [self |-> self, outcome |-> "raised", result |-> <<>>]

Completed(c, call, upstream, tried) ==
    LET a == after_try(Self(call.api), call.current_time, tried)
    IN  /\ _cache' = [_cache EXCEPT ![call.api] = a.self.cache]
        /\ _cache_timestamp' = [_cache_timestamp EXCEPT ![call.api] = a.self.timestamp]
        /\ _logged_unknown_tokens' = _logged_unknown_tokens \cup tried.logged
        /\ calls' = [calls EXCEPT ![c] =
                        [NoCall EXCEPT !.pc = IF a.outcome = "raised" THEN "raised" ELSE "returned",
                                       !.api = call.api,
                                       !.upstream = upstream,
                                       !.outcome = a.outcome,
                                       !.result = a.result]]
        /\ last_call' = [last_call EXCEPT ![call.api] =
                            [current_time |-> call.current_time, outcome |-> a.outcome]]

\* caller c calls api.get_all_pools(force_refresh) and runs to the return of
\* the cached list or to the await (BluefinAPI's fetch never suspends)
GetAllPools(c, api, force_refresh) ==
    LET call == [NoCall EXCEPT !.api = api, !.force_refresh = force_refresh,
                               !.current_time = now]
    IN  /\ calls[c].pc # "fetching"
        /\ IF cache_hit(Self(api), force_refresh, now)
           THEN /\ calls' = [calls EXCEPT ![c] =
                                [NoCall EXCEPT !.pc = "returned", !.api = api,
                                               !.outcome = "hit",
                                               !.result = _cache[api][1]]]
                /\ last_call' = [last_call EXCEPT ![api] =
                                    [current_time |-> now, outcome |-> "hit"]]
                /\ UNCHANGED <<_cache, _cache_timestamp, _logged_unknown_tokens>>
           ELSE IF api = "bluefin"
           THEN Completed(c, call, "ok", BluefinAPI_try)
           ELSE /\ calls' = [calls EXCEPT ![c] =
                                [call EXCEPT !.pc = "fetching", !.upstream = "pending"]]
                /\ UNCHANGED <<_cache, _cache_timestamp, _logged_unknown_tokens, last_call>>
        /\ UNCHANGED <<now, search, resolver, filtering, adapter, db>>

\* the upstream answers caller c's request and get_all_pools runs to its end
FetchReturns(c, response) ==
    /\ calls[c].pc = "fetching"
    /\ Completed(c, calls[c],
                 IF HyperionAPI_fetch_raises(response) THEN "failed" ELSE "ok",
                 HyperionTried[response])
    /\ UNCHANGED <<now, search, resolver, filtering, adapter, db>>

Tick ==
    /\ now + TickStep <= MaxTime
    /\ now' = now + TickStep
    /\ UNCHANGED <<_cache, _cache_timestamp, _logged_unknown_tokens, calls, last_call, search,
                   resolver, filtering, adapter, db>>

NoSearch ==
    [pc |-> "idle", query |-> <<>>, token_a |-> <<>>, token_b |-> <<>>,
     chain |-> 0, protocol |-> 0, current_time |-> 0,
     protocol_results |-> <<>>, blockchain_results |-> <<>>,
     errors |-> {}, upstream |-> 0, result |-> <<>>]

\* the module state of the other resolver entry points as imported, and no
\* call made yet: token_parser's TOKEN_REGISTRY is the dict of
\* src/token_registry.py, which get_token_symbol extends; TOKEN_REGISTRY_added
\* holds the entries added since the import
NoResolve ==
    [entry |-> "none", token_address |-> Null, symbol |-> <<>>, tier |-> "none",
     logged |-> FALSE, repeated |-> FALSE,
     TOKEN_REGISTRY_added |-> <<>>,
     _unknown_tokens_logged |-> {},
     log |-> <<>>]

NoFiltering == [pc |-> "idle"]

Init ==
    /\ now = 0
    /\ _cache = [a \in Adapters |-> <<>>]
    /\ _cache_timestamp = [a \in Adapters |-> 0]
    /\ _logged_unknown_tokens = {}
    /\ calls = [c \in Callers |-> NoCall]
    /\ last_call = [a \in Adapters |-> [current_time |-> 0, outcome |-> "none"]]
    /\ search = NoSearch
    /\ resolver = NoResolve
    /\ filtering = NoFiltering
    /\ adapter = [pc |-> "idle"]
    /\ db = [users |-> <<>>, watched_pools |-> <<>>, writer |-> "none", added |-> 0,
             sessions |-> [s \in {"s1", "s2"} |-> [pc |-> "idle"]]]

NextCache ==
    \/ \E c \in Callers, api \in Adapters, force_refresh \in BOOLEAN :
           GetAllPools(c, api, force_refresh)
    \/ \E c \in Callers, response \in CacheResponses : FetchReturns(c, response)
    \/ Tick

SpecCache == Init /\ [][NextCache]_vars

----------------------------------------------------------------------------
(* bot/utils/token_search.py: TokenSearchEngine                             *)

\* self.protocols, in the insertion order of the dict literals (the emoji of
\* a protocol is presentation only and is left out)
protocols ==
    <<[chain_id |-> "aptos",
       protocols |-> <<[protocol_id |-> "hyperion", api |-> "hyperion", name |-> "Hyperion"]>>],
      [chain_id |-> "sui",
       protocols |-> <<[protocol_id |-> "bluefin", api |-> "bluefin", name |-> "Bluefin Exchange"]>>]>>

\* chain_info.get(chain_id, (chain_id.capitalize(), ..))[0]
chain_name(chain_id) ==
    CASE chain_id = "aptos" -> "Aptos"
      [] chain_id = "sui" -> "Sui"
      [] chain_id = "bsc" -> "BSC"
      [] chain_id = "ethereum" -> "Ethereum"
      [] chain_id = "solana" -> "Solana"
      [] OTHER -> chain_id

RECURSIVE Sum(_)
\* sum(xs)
Sum(xs) == IF xs = <<>> THEN 0 ELSE Head(xs) + Sum(Tail(xs))

\* max(xs, default=0.0)
MaxOr0(xs) ==
    IF xs = <<>> THEN 0
    ELSE xs[CHOOSE i \in 1..Len(xs) : \A j \in 1..Len(xs) : xs[j] <= xs[i]]

sorted_reverse_ties_reversed(xs, keys) ==
    LET rank(i) == Cardinality({j \in 1..Len(xs) :
                                    keys[j] > keys[i] \/ (keys[j] = keys[i] /\ j > i)}) + 1
    IN  [k \in 1..Len(xs) |-> xs[CHOOSE i \in 1..Len(xs) : rank(i) = k]]

\* sorted(xs, key=.., reverse=True) where keys[i] is the key of xs[i]: by key,
\* largest first, and elements with equal keys in their original order
sorted_reverse(xs, keys) ==
    LET rank(i) == Cardinality({j \in 1..Len(xs) :
                                    keys[j] > keys[i] \/ (keys[j] = keys[i] /\ j < i)}) + 1
    IN  [k \in 1..Len(xs) |-> xs[CHOOSE i \in 1..Len(xs) : rank(i) = k]]

\* x.get('tvlUSD', x.get('tvl_usd', 0))
pool_tvl(x) == Get(x, "tvlUSD", Get(x, "tvl_usd", Num(0)))

\* the condition under which _filter_pools appends pool; token_b is <<>> for
\* None and <<text>> otherwise, and `if token_b:` fails for None and for ''
filter_pools_matches(pool, token_a, token_b) ==
    LET pool_token_a == upper(Get(pool, "token_a", Str(<<>>)).s)
        pool_token_b == upper(Get(pool, "token_b", Str(<<>>)).s)
    IN  IF token_b # <<>> /\ token_b[1] # <<>>
        THEN \/ (pool_token_a = token_a /\ pool_token_b = token_b[1])
             \/ (pool_token_a = token_b[1] /\ pool_token_b = token_a)
        ELSE token_a = pool_token_a \/ token_a = pool_token_b

\* _filter_pools raises: .upper() needs a str, and the sort key needs a
\* number for each pool that was appended
filter_pools_raises(pools, token_a, token_b) ==
    \E i \in 1..Len(pools) :
        \/ Get(pools[i], "token_a", Str(<<>>)).t # "str"
        \/ Get(pools[i], "token_b", Str(<<>>)).t # "str"
        \/ /\ filter_pools_matches(pools[i], token_a, token_b)
           /\ float_raises(pool_tvl(pools[i]))

\* filter_pools that returns the appended pools in the order of the adapter's list
filter_pools_unsorted(pools, token_a, token_b) ==
    SelectSeq(pools, LAMBDA pool : filter_pools_matches(pool, token_a, token_b))

\* _filter_pools(pools, token_a, token_b) where it does not raise
filter_pools(pools, token_a, token_b) ==
    LET hits == {i \in 1..Len(pools) : filter_pools_matches(pools[i], token_a, token_b)}
        filtered == SelectSeq([i \in 1..Len(pools) |-> [at |-> i, pool |-> pools[i]]],
                              LAMBDA e : e.at \in hits)
        kept == [k \in 1..Len(filtered) |-> filtered[k].pool]
    IN  sorted_reverse(kept, [k \in 1..Len(kept) |-> float(pool_tvl(kept[k]))])

\* ProtocolResultOf that takes the TVL of the largest pool for the total
ProtocolResultOf_top_tvl(protocol_info, filtered) ==
    [protocol_id   |-> protocol_info.protocol_id,
     protocol_name |-> protocol_info.name,
     pool_count    |-> Len(filtered),
     total_tvl     |-> float(pool_tvl(filtered[1])),
     best_apr      |-> MaxOr0([k \in 1..Len(filtered) |->
                                   float(Get(filtered[k], "total_apr", Num(0)))]),
     pools         |-> filtered]

\* lines 152-167: the try body after `pools` is there
ProtocolResultOf(protocol_info, filtered) ==
    [protocol_id   |-> protocol_info.protocol_id,
     protocol_name |-> protocol_info.name,
     pool_count    |-> Len(filtered),
     total_tvl     |-> Sum([k \in 1..Len(filtered) |-> float(pool_tvl(filtered[k]))]),
     best_apr      |-> MaxOr0([k \in 1..Len(filtered) |->
                                   float(Get(filtered[k], "total_apr", Num(0)))]),
     pools         |-> filtered]

\* lines 186-194
BlockchainResultOf(chain_id, protocol_results) ==
    [chain_id   |-> chain_id,
     chain_name |-> chain_name(chain_id),
     pool_count |-> Sum([k \in 1..Len(protocol_results) |-> protocol_results[k].pool_count]),
     total_tvl  |-> Sum([k \in 1..Len(protocol_results) |-> protocol_results[k].total_tvl]),
     protocols  |-> protocol_results,
     best_apr   |-> MaxOr0([k \in 1..Len(protocol_results) |-> protocol_results[k].best_apr])]

\* on_adapter_error without the except clauses: the exception leaves search_token
on_adapter_error_propagates(st, protocol_id) ==
    [st EXCEPT !.pc = "raised"]

\* lines 168-170 and 107-109: an exception of get_all_pools or of the
\* filtering is logged and the loop continues with the next protocol
on_adapter_error(st, protocol_id) ==
    [st EXCEPT !.errors = @ \cup {protocol_id}]

\* lines 139-170 from the return of get_all_pools on; `got` is how that call
\* ended: [raised, pools]
after_get_all_pools(st, protocol_info, got) ==
    IF got.raised THEN on_adapter_error(st, protocol_info.protocol_id)
    ELSE IF filter_pools_raises(got.pools, st.token_a, st.token_b)
    THEN on_adapter_error(st, protocol_info.protocol_id)
    ELSE LET filtered == filter_pools(got.pools, st.token_a, st.token_b)
         IN  IF \E k \in 1..Len(filtered) : float_raises(Get(filtered[k], "total_apr", Num(0)))
             THEN on_adapter_error(st, protocol_info.protocol_id)
             ELSE IF filtered # <<>>
             THEN [st EXCEPT !.protocol_results =
                                 Append(@, ProtocolResultOf(protocol_info, filtered))]
             ELSE st

\* lines 172-194 and 105-106: the end of _search_in_blockchain for the chain
\* and what search_token does with its result
after_search_in_blockchain(st, chain_id) ==
    IF st.protocol_results = <<>> THEN st
    ELSE LET chain_result == BlockchainResultOf(chain_id, st.protocol_results)
         IN  [st EXCEPT !.protocol_results = <<>>,
                        !.blockchain_results =
                            IF chain_result.pool_count > 0 THEN Append(@, chain_result) ELSE @]

\* lines 111-124
search_token_return(st) ==
    LET blockchain_results ==
            sorted_reverse(st.blockchain_results,
                           [k \in 1..Len(st.blockchain_results) |->
                                st.blockchain_results[k].total_tvl])
    IN  [st EXCEPT !.pc = "returned",
                   !.blockchain_results = <<>>,
                   !.result = <<[token |-> st.query,
                                 total_pools |-> Sum([k \in 1..Len(blockchain_results) |->
                                                          blockchain_results[k].pool_count]),
                                 blockchains |-> blockchain_results]>>]

RECURSIVE RunSearch(_, _, _, _)
\* search_token from protocol j of chain i on, up to its next await or its
\* return. mem holds the adapters' fields and the logged identifiers.
RunSearch(i, j, st, mem) ==
    IF st.pc = "raised" THEN [st |-> st, mem |-> mem]
    ELSE IF i > Len(protocols) THEN [st |-> search_token_return(st), mem |-> mem]
    ELSE IF j > Len(protocols[i].protocols)
    THEN RunSearch(i + 1, 1, after_search_in_blockchain(st, protocols[i].chain_id), mem)
    ELSE LET protocol_info == protocols[i].protocols[j]
             api == protocol_info.api
             self == mem.adapters[api]
         IN  IF cache_hit(self, FALSE, now)
             THEN RunSearch(i, j + 1,
                            after_get_all_pools(st, protocol_info,
                                                [raised |-> FALSE, pools |-> self.cache[1]]),
                            mem)
             ELSE IF api = "bluefin"
             THEN LET a == after_try(self, now, BluefinAPI_try)
                  IN  RunSearch(i, j + 1,
                                after_get_all_pools([st EXCEPT !.upstream = @ + 1], protocol_info,
                                                    [raised |-> a.outcome = "raised",
                                                     pools |-> a.result]),
                                [mem EXCEPT !.adapters[api] = a.self,
                                            !.logged = @ \cup BluefinAPI_try.logged])
             ELSE [st |-> [st EXCEPT !.pc = "awaiting", !.chain = i, !.protocol = j,
                                     !.current_time = now, !.upstream = @ + 1],
                   mem |-> mem]

Memory ==
    [adapters |-> [a \in Adapters |-> Self(a)], logged |-> _logged_unknown_tokens]

Store(mem) ==
    /\ _cache' = [a \in Adapters |-> mem.adapters[a].cache]
    /\ _cache_timestamp' = [a \in Adapters |-> mem.adapters[a].timestamp]
    /\ _logged_unknown_tokens' = mem.logged

\* invalid_pair_format that lets three segments through
invalid_pair_format_over_three(tokens) == Len(tokens) > 3

\* line 84
invalid_pair_format(tokens) == Len(tokens) # 2

\* line 77
normalize_query(query) == strip(replace(upper(query), <<"/">>, <<"-">>))

\* search_token(query) up to its first await, its return or its ValueError
SearchToken(query) ==
    LET normalized == normalize_query(query)
        is_pair == contains(normalized, <<"-">>)
        tokens == split(normalized, <<"-">>)
        st == [NoSearch EXCEPT !.pc = "running", !.query = normalized]
    IN  /\ search.pc # "awaiting"
        /\ IF is_pair /\ invalid_pair_format(tokens)
           THEN /\ search' = [st EXCEPT !.pc = "ValueError"]
                /\ UNCHANGED <<_cache, _cache_timestamp, _logged_unknown_tokens>>
           ELSE LET ran == RunSearch(1, 1,
                                     [st EXCEPT !.token_a = IF is_pair THEN tokens[1] ELSE normalized,
                                                !.token_b = IF is_pair THEN <<tokens[2]>> ELSE <<>>],
                                     Memory)
                IN  search' = ran.st /\ Store(ran.mem)
        /\ UNCHANGED <<now, calls, last_call, resolver, filtering, adapter, db>>

\* the upstream answers the request of the get_all_pools call search_token
\* awaits, and search_token runs on to its next await or its return
SearchFetchReturns(response) ==
    LET protocol_info == protocols[search.chain].protocols[search.protocol]
        api == protocol_info.api
        tried == HyperionTried[response]
        a == after_try(Self(api), search.current_time, tried)
        ran == RunSearch(search.chain, search.protocol + 1,
                         after_get_all_pools([search EXCEPT !.pc = "running"], protocol_info,
                                             [raised |-> a.outcome = "raised", pools |-> a.result]),
                         [Memory EXCEPT !.adapters[api] = a.self,
                                        !.logged = @ \cup tried.logged])
    IN  /\ search.pc = "awaiting"
        /\ search' = ran.st
        /\ Store(ran.mem)
        /\ UNCHANGED <<now, calls, last_call, resolver, filtering, adapter, db>>

\* the queries searched for
Queries ==
    {<<"A","P","T">>, <<"a","p","t">>, <<" ","U","S","D","T"," ">>, <<"F","O","O">>,
     <<"X","Y","Z">>,
     <<"A","P","T","-","U","S","D","T">>, <<"u","s","d","t","/","a","p","t">>,
     <<"A","P","T","-","F","O","O">>, <<"A","P","T","-","X","Y","Z">>,
     <<"A","P","T","-">>, <<"-","A","P","T">>, <<"-">>,
     <<"A","P","T","-","U","S","D","T","-","F","O","O">>, <<"A","P","T","/","/">>}

NextSearch ==
    \/ \E query \in Queries : SearchToken(query)
    \/ \E response \in SearchResponses : SearchFetchReturns(response)
    \/ Tick

SpecSearch == Init /\ [][NextSearch]_vars

----------------------------------------------------------------------------
(* The resolver entry points called one after another in one process.      *)

ResolverEntries ==
    {"token_registry", "token_parser", "_get_symbol_from_fa", "_get_token_symbol_fallback"}

MaxLog == 2

\* parse_token_symbol_from_address answers from the last of three or more
\* segments, or with a shortened address
parsed_tier(address) ==
    IF Len(split(strip(address), <<":",":">>)) >= 3 THEN "heuristic" ELSE "opaque"

TOKEN_USDCCOIN == <<"0","x","a","b","c",":",":","b","r","i","d","g","e",":",":","U","s","d","c","C","o","i","n">>

TOKEN_OPAQUE == <<"0","x","a","b","c","d","e","f","1","2","3","4">>

\* None, '', a registered identifier, an unregistered one for a pattern, one
\* for the heuristic, one with no structure, an FA address
Identifiers ==
    {Null, Str(<<>>), Str(TOKEN_APT), Str(TOKEN_USDCCOIN), Str(TOKEN_FOO), Str(TOKEN_OPAQUE),
     Str(FA_USDt)}

\* an identifier as registered, upper-cased, and lower-cased between whitespace
Spellings(identifier) ==
    {identifier, upper(identifier), <<" ">> \o lower(identifier) \o <<"\n">>}

RegistryIdentifiers ==
    UNION {Spellings(TOKEN_REGISTRY[i][1]) : i \in 1..Len(TOKEN_REGISTRY)}

\* identifiers no registry entry and no pattern rule covers: whitespace only,
\* three segments whose last is Coin, ends in Coin, holds Coin twice, is
\* short, is long; no segments with and without 0x
ParseIdentifiers ==
    LET module == SubSeq(TOKEN_FOO, 1, 17)
    IN  {<<" "," "," ">>,
         module \o <<"C","o","i","n">>,
         module \o <<"L","o","n","g","T","o","k","e","n","N","a","m","e","C","o","i","n">>,
         module \o <<"M","y","C","o","i","n","X","C","o","i","n">>,
         TOKEN_FOO,
         module \o <<"V","e","r","y","L","o","n","g","N","a","m","e">>,
         TOKEN_OPAQUE,
         <<"p","l","a","i","n","i","d","e","n","t","i","f","i","e","r">>}

\* get_token_symbol of bot/utils/token_registry.py on the identifiers above:
\* its return value, the step that answered, and what it adds to
\* _logged_unknown_tokens
token_registry_answers ==
    [token_address \in Identifiers \cup {Str(identifier) :
                                         identifier \in RegistryIdentifiers \cup ParseIdentifiers} |->
        [symbol |-> get_token_symbol(token_address),
         tier   |-> IF ~truthy(token_address) THEN "sentinel"
                    ELSE IF resolution_tier(token_address.s) = "parsed"
                    THEN parsed_tier(token_address.s)
                    ELSE resolution_tier(token_address.s),
         logs   |-> get_token_symbol_logs(token_address)]]

\* HyperionAdapter's two lookups on the identifiers above
HyperionAdapter_answers ==
    [token_address \in Identifiers |->
        [fa_symbol |-> HyperionAdapter_get_symbol_from_fa(token_address),
         fa_tier   |-> IF ~truthy(token_address) THEN "sentinel"
                       ELSE IF InTable(FA_TO_SYMBOL, strip(lower(token_address.s)))
                       THEN "registry" ELSE "opaque",
         symbol    |-> HyperionAdapter_get_token_symbol_fallback(token_address),
         tier      |-> IF ~truthy(token_address) THEN "sentinel"
                       ELSE HyperionAdapter_fallback_tier(token_address.s),
         unknown   |-> HyperionAdapter_fallback_unknown(token_address)]]

\* get_token_symbol of src/token_parser.py on the identifiers above with
\* TOKEN_REGISTRY as imported: its return value, the step that answered,
\* whether it writes a log record, and the entries it adds to TOKEN_REGISTRY
token_parser_answers ==
    [token_address \in Identifiers |->
        [symbol |-> token_parser_get_token_symbol(token_registry_TOKEN_REGISTRY, token_address),
         tier   |-> IF ~truthy(token_address) THEN "sentinel"
                    ELSE IF token_parser_resolution_tier(token_registry_TOKEN_REGISTRY,
                                                         token_address.s) = "parsed"
                    THEN parsed_tier(token_address.s)
                    ELSE token_parser_resolution_tier(token_registry_TOKEN_REGISTRY,
                                                      token_address.s),
         logs   |-> token_parser_get_token_symbol_logs(token_registry_TOKEN_REGISTRY,
                                                       token_address),
         added  |-> SubSeq(token_parser_registry_after(token_registry_TOKEN_REGISTRY,
                                                       token_address),
                           Len(token_registry_TOKEN_REGISTRY) + 1,
                           Len(token_parser_registry_after(token_registry_TOKEN_REGISTRY,
                                                           token_address)))]]

\* one call entry(token_address) in the state at hand: what it returns, the
\* step that answered, whether it writes a log record, and the module state
\* it leaves. token_parser finds an identifier it added to TOKEN_REGISTRY
\* before in the registry (line 181) and answers as after the import otherwise.
Resolution(entry, token_address) ==
    LET sentinel == ~truthy(token_address)
        address == IF sentinel THEN <<>> ELSE token_address.s
        base == [symbol |-> <<>>, tier |-> "sentinel", logged |-> FALSE,
                 _logged_unknown_tokens |-> _logged_unknown_tokens,
                 TOKEN_REGISTRY_added |-> resolver.TOKEN_REGISTRY_added,
                 _unknown_tokens_logged |-> resolver._unknown_tokens_logged]
    IN  CASE entry = "token_registry" ->
                 LET answer == token_registry_answers[token_address]
                 IN  [base EXCEPT
                          !.symbol = answer.symbol,
                          !.tier = answer.tier,
                          !.logged = answer.logs \ _logged_unknown_tokens # {},
                          !._logged_unknown_tokens = @ \cup answer.logs]
          [] entry = "token_parser" ->
                 LET answer == token_parser_answers[token_address]
                     added == InTable(resolver.TOKEN_REGISTRY_added, address)
                 IN  [base EXCEPT
                          !.symbol = IF added THEN Lookup(resolver.TOKEN_REGISTRY_added, address)
                                     ELSE answer.symbol,
                          !.tier = IF added THEN "registry" ELSE answer.tier,
                          !.logged = ~added /\ answer.logs,
                          !.TOKEN_REGISTRY_added = IF added THEN @ ELSE @ \o answer.added]
          [] entry = "_get_symbol_from_fa" ->
                 [base EXCEPT
                      !.symbol = HyperionAdapter_answers[token_address].fa_symbol,
                      !.tier = HyperionAdapter_answers[token_address].fa_tier]
          [] OTHER ->
                 LET answer == HyperionAdapter_answers[token_address]
                 IN  [base EXCEPT
                          !.symbol = answer.symbol,
                          !.tier = answer.tier,
                          !.logged = answer.unknown
                                     /\ address \notin resolver._unknown_tokens_logged,
                          !._unknown_tokens_logged =
                              IF answer.unknown THEN @ \cup {address} ELSE @]

\* a caller resolves token_address (None or a str) through an entry point
Resolve(entry, token_address) ==
    \E r \in {Resolution(entry, token_address)} :
        /\ r.logged => Len(resolver.log) < MaxLog
        /\ resolver' =
               [entry |-> entry, token_address |-> token_address, symbol |-> r.symbol,
                tier |-> r.tier, logged |-> r.logged,
                repeated |-> resolver.entry = entry /\ resolver.token_address = token_address,
                TOKEN_REGISTRY_added |-> r.TOKEN_REGISTRY_added,
                _unknown_tokens_logged |-> r._unknown_tokens_logged,
                log |-> IF r.logged THEN Append(resolver.log, <<entry, token_address.s>>)
                        ELSE resolver.log]
        /\ _logged_unknown_tokens' = r._logged_unknown_tokens
        /\ UNCHANGED <<now, _cache, _cache_timestamp, calls, last_call, search, filtering, adapter, db>>

NextResolver ==
    \E entry \in ResolverEntries, token_address \in Identifiers : Resolve(entry, token_address)

SpecResolver == Init /\ [][NextResolver]_vars

NextRegistry ==
    \E identifier \in RegistryIdentifiers : Resolve("token_registry", Str(identifier))

SpecRegistry == Init /\ [][NextRegistry]_vars

SpecParse ==
    Init /\ [][\E identifier \in ParseIdentifiers : Resolve("token_registry", Str(identifier))]_vars

----------------------------------------------------------------------------
(* filter_pools of HyperionAPI and BluefinAPI. Lists are objects: lists is   *)
(* the sequence of the list objects alive during one call, a list is named   *)
(* by its index, and the caller's list is lists[1].                          *)

\* a new list object holding xs: pools.copy(), a list comprehension, a slice
list_reuse(lists, xs) ==
    [lists |-> [lists EXCEPT ![Len(lists)] = xs], ref |-> Len(lists)]

list_new(lists, xs) ==
    [lists |-> Append(lists, xs), ref |-> Len(lists) + 1]

\* [p for p in filtered if ..] where keeps[i] is the condition for filtered[i]
list_comprehension(xs, keeps) ==
    LET kept == {i \in 1..Len(xs) : keeps[i]}
        nth(k) == CHOOSE i \in kept : Cardinality({j \in kept : j < i}) = k - 1
    IN  [k \in 1..Cardinality(kept) |-> xs[nth(k)]]

\* xs[:limit]
list_slice_to(xs, limit) ==
    IF limit >= 0 THEN SubSeq(xs, 1, IF limit < Len(xs) THEN limit ELSE Len(xs))
    ELSE SubSeq(xs, 1, IF Len(xs) + limit > 0 THEN Len(xs) + limit ELSE 0)

filter_pools_sort_key_tvl(sort_by, p) == float(Get(p, "tvlUSD", Num(0)))

\* sort_keys.get(sort_by, sort_keys['tvl'])(p)
filter_pools_sort_key(sort_by, p) ==
    CASE sort_by = "volume" -> float(Get(p, "dailyVolumeUSD", Num(0)))
      [] sort_by = "apr"    -> float(Get(p, "total_apr", Num(0)))
      [] sort_by = "fees"   -> float(Get(p, "feesUSD", Num(0)))
      [] OTHER              -> float(Get(p, "tvlUSD", Num(0)))

filter_pools_sort_key_raises(sort_by, p) ==
    CASE sort_by = "volume" -> float_raises(Get(p, "dailyVolumeUSD", Num(0)))
      [] sort_by = "apr"    -> float_raises(Get(p, "total_apr", Num(0)))
      [] sort_by = "fees"   -> float_raises(Get(p, "feesUSD", Num(0)))
      [] OTHER              -> float_raises(Get(p, "tvlUSD", Num(0)))

\* filter_pools returns the list lists[ref] or raises: what the caller then
\* sees of its own list lists[1] and of the answer. seen holds what the model
\* keeps of the call itself.
filter_pools_ends(seen, raises, lists, ref) ==
    /\ filtering' =
           Merge(seen, [pc |-> IF raises THEN "raised" ELSE "returned",
                        pools |-> lists[1],
                        filtered |-> IF raises THEN <<>> ELSE lists[ref],
                        is_pools |-> ~raises /\ ref = 1])
    /\ UNCHANGED <<now, _cache, _cache_timestamp, _logged_unknown_tokens, calls, last_call,
                   search, resolver, adapter, db>>

\* BluefinAPI.filter_pools(pools, min_tvl, min_volume, fee_tiers, has_farm,
\* sort_by, limit) on the caller's list pools, statement by statement.
\* fee_tiers and limit are <<>> for None and <<value>> otherwise, has_farm is
\* Null or Bool(..).
BluefinAPI_filter_pools(seen, pools, min_tvl, min_volume, fee_tiers, has_farm, sort_by, limit) ==
    LET tvl(p) == Get(p, "tvlUSD", Num(0))
        volume(p) == Get(p, "dailyVolumeUSD", Num(0))
        at(l) == l.lists[l.ref]
    IN  \E copy \in {list_new(<<pools>>, pools)} :
        IF \E i \in 1..Len(at(copy)) : float_raises(tvl(at(copy)[i]))
        THEN filter_pools_ends(seen, TRUE, copy.lists, copy.ref)
        ELSE
        \E by_tvl \in {list_new(copy.lists,
                           list_comprehension(at(copy),
                               [i \in 1..Len(at(copy)) |->
                                   float(tvl(at(copy)[i])) >= min_tvl]))} :
        IF \E i \in 1..Len(at(by_tvl)) : float_raises(volume(at(by_tvl)[i]))
        THEN filter_pools_ends(seen, TRUE, by_tvl.lists, by_tvl.ref)
        ELSE
        \E by_volume \in {list_new(by_tvl.lists,
                              list_comprehension(at(by_tvl),
                                  [i \in 1..Len(at(by_tvl)) |->
                                      float(volume(at(by_tvl)[i])) >= min_volume]))} :
        \E positive \in {list_new(by_volume.lists,
                             list_comprehension(at(by_volume),
                                 [i \in 1..Len(at(by_volume)) |->
                                     float(tvl(at(by_volume)[i])) > 0]))} :
        \E by_fee_tier \in
               {IF fee_tiers # <<>> /\ fee_tiers[1] # <<>>
                THEN list_new(positive.lists,
                         list_comprehension(at(positive),
                             [i \in 1..Len(at(positive)) |->
                                 \E k \in 1..Len(fee_tiers[1]) :
                                     Get(at(positive)[i], "fee_tier_value", Null)
                                     = Num(fee_tiers[1][k])]))
                ELSE positive} :
        \E by_farm \in
               {IF has_farm # Null
                THEN list_new(by_fee_tier.lists,
                         list_comprehension(at(by_fee_tier),
                             [i \in 1..Len(at(by_fee_tier)) |->
                                 Get(at(by_fee_tier)[i], "has_farm", Null) = has_farm]))
                ELSE by_fee_tier} :
        IF \E i \in 1..Len(at(by_farm)) : filter_pools_sort_key_raises(sort_by, at(by_farm)[i])
        THEN filter_pools_ends(seen, TRUE, by_farm.lists, by_farm.ref)
        ELSE
        \E sorted \in
               {[by_farm EXCEPT
                     !.lists[by_farm.ref] =
                         sorted_reverse(at(by_farm),
                             [i \in 1..Len(at(by_farm)) |->
                                 filter_pools_sort_key(sort_by, at(by_farm)[i])])]} :
        \E limited \in
               {IF limit # <<>> /\ limit[1] # 0
                THEN list_new(sorted.lists, list_slice_to(at(sorted), limit[1]))
                ELSE sorted} :
        filter_pools_ends(seen, FALSE, limited.lists, limited.ref)

\* HyperionAPI.filter_pools is the same code with the volume floor written
\* into the second comprehension
HyperionAPI_filter_pools(seen, pools, min_tvl, fee_tiers, has_farm, sort_by, limit) ==
    BluefinAPI_filter_pools(seen, pools, min_tvl, 50000, fee_tiers, has_farm, sort_by, limit)

\* an entry of get_all_pools' list: the upstream record enriched, with feesUSD
\* as the upstream sent it
FilterPool(id, tvl, volume, fees, fee_apr, farm_apr, fee_rate) ==
    [HyperionAPI_enrich_pool(PoolStat(id, tvl, volume, Num(fee_apr), Num(farm_apr),
                                      Str(TOKEN_APT), Str(FA_USDt), Num(fee_rate)))
         EXCEPT !.feesUSD = fees]

PoolA == FilterPool(<<"A">>, Num(200000), Num(50001), Num(7), 5, 0, 500)

\* the amounts as digit strings; total_apr as PoolD
PoolB == FilterPool(<<"B">>, Str(str_int(100000)), Str(str_int(50000)), Num(7), 10, 20, 2500)

\* total_apr as PoolA
PoolC == FilterPool(<<"C">>, Num(300000), Num(100000), Num(3), 5, 0, 100)

\* tvlUSD and dailyVolumeUSD as PoolA
PoolD == FilterPool(<<"D">>, Num(200000), Num(50001), Num(9), 29, 1, 500)

\* feesUSD is null
PoolE == FilterPool(<<"E">>, Num(150000), Num(60000), Null, 1, 0, 500)

\* the lists filter_pools is called with; the last one holds a pool whose
\* dailyVolumeUSD is under 50000
FilterInputs ==
    {<<>>, <<PoolA, PoolB, PoolC, PoolD>>, <<PoolD, PoolC, PoolB, PoolA>>, <<PoolB, PoolD, PoolA>>,
     <<PoolA, PoolE>>,
     <<FilterPool(<<"F">>, Num(250000), Num(40000), Num(1), 2, 0, 500), PoolA>>}

MaxLimit == 2

\* the arguments of a call: the defaults and a value beside each; fee_tiers
\* None, [] and a list; limit None and 0..MaxLimit; a sort_by outside sort_keys
FilterCalls ==
    [min_tvl    : {100000, 200000},
     min_volume : {50000, 50001},
     fee_tiers  : {<<>>, <<<<>>>>, <<<<500, 2500>>>>},
     has_farm   : {Null, Bool(TRUE), Bool(FALSE)},
     sort_by    : {"tvl", "volume", "apr", "fees", "liquidity"},
     limit      : {<<>>} \cup {<<limit>> : limit \in 0..MaxLimit}]

\* api.filter_pools(pools, ..) with the arguments of the record call; input
\* tells which list the caller passed: one of its own, the same list again, or
\* the list the call before returned
Filtered(api, pools, call, input) ==
    LET seen == [api |-> api, call |-> call, input |-> input, pools_before |-> pools]
    IN  IF api = "hyperion"
        THEN HyperionAPI_filter_pools(seen, pools, call.min_tvl, call.fee_tiers, call.has_farm,
                                      call.sort_by, call.limit)
        ELSE BluefinAPI_filter_pools(seen, pools, call.min_tvl, call.min_volume, call.fee_tiers,
                                     call.has_farm, call.sort_by, call.limit)

\* a handler calls api.filter_pools on a list it holds
FilterPools(api, pools, call) ==
    /\ filtering.pc = "idle"
    /\ Filtered(api, pools, call, "given")

\* the caller repeats the call on the same list with the same arguments
FilterPoolsAgain ==
    /\ filtering.pc = "returned"
    /\ Filtered(filtering.api, filtering.pools, filtering.call, "same")

\* the caller passes the returned list to the same call
FilterPoolsOfResult ==
    /\ filtering.pc = "returned"
    /\ Filtered(filtering.api, filtering.filtered, filtering.call, "result")

\* the handler is done
FilterDone ==
    /\ filtering.pc # "idle"
    /\ filtering' = NoFiltering
    /\ UNCHANGED <<now, _cache, _cache_timestamp, _logged_unknown_tokens, calls, last_call,
                   search, resolver, adapter, db>>

NextFilter ==
    \/ \E api \in Adapters, pools \in FilterInputs, call \in FilterCalls :
           /\ api = "hyperion" => call.min_volume = 50000
           /\ FilterPools(api, pools, call)
    \/ FilterPoolsAgain
    \/ FilterPoolsOfResult
    \/ FilterDone

SpecFilter == Init /\ [][NextFilter]_vars

----------------------------------------------------------------------------
(* bot/adapters/hyperion.py: HyperionAdapter.get_pools and its fallbacks.   *)
(* A PoolData float is held in hundredths.                                   *)

PoolData_total_is_fees(pool_address, token_x_symbol, token_y_symbol, tvl_usd, volume_24h, apr_fees, apr_farming, total_apr, fees_24h, fee_rate) ==
    [protocol |-> <<"h","y","p","e","r","i","o","n">>, pool_address |-> pool_address,
     token_x_symbol |-> token_x_symbol, token_y_symbol |-> token_y_symbol,
     tvl_usd |-> tvl_usd, volume_24h |-> volume_24h,
     apr_fees |-> apr_fees, apr_farming |-> apr_farming, total_apr |-> apr_fees,
     fees_24h |-> fees_24h, fee_rate |-> fee_rate]

PoolData(pool_address, token_x_symbol, token_y_symbol, tvl_usd, volume_24h, apr_fees, apr_farming, total_apr, fees_24h, fee_rate) ==
    [protocol |-> <<"h","y","p","e","r","i","o","n">>, pool_address |-> pool_address,
     token_x_symbol |-> token_x_symbol, token_y_symbol |-> token_y_symbol,
     tvl_usd |-> tvl_usd, volume_24h |-> volume_24h,
     apr_fees |-> apr_fees, apr_farming |-> apr_farming, total_apr |-> total_apr,
     fees_24h |-> fees_24h, fee_rate |-> fee_rate]

\* _parse_pool(pool_stat): <<>> for None, which every exception ends in too,
\* and <<PoolData>> otherwise
HyperionAdapter_parse_pool(pool_stat) ==
    LET pool_info == Get(pool_stat, "pool", Obj(<<>>))
        pool_id == Get(pool_stat, "id", Null)
        token1_fa == Get(pool_info.o, "token1", Str(<<>>))
        token2_fa == Get(pool_info.o, "token2", Str(<<>>))
        apr_fees == 100 * float(Get(pool_stat, "feeAPR", Num(0)))
        apr_farming == 100 * float(Get(pool_stat, "farmAPR", Num(0)))
    IN  IF \/ ~truthy(pool_info)
           \/ ~truthy(pool_id)
           \/ pool_info.t # "obj"
           \/ get_token_symbol_raises(token1_fa)
           \/ get_token_symbol_raises(token2_fa)
           \/ \E k \in {"tvlUSD", "dailyVolumeUSD", "feesUSD", "feeAPR", "farmAPR"} :
                  float_raises(Get(pool_stat, k, Num(0)))
           \/ int_raises(Get(pool_info.o, "feeRate", Num(0)))
        THEN <<>>
        ELSE <<PoolData(IF pool_id.t = "num" THEN str_int(pool_id.n) ELSE pool_id.s,
                        HyperionAdapter_get_symbol_from_fa(token1_fa),
                        HyperionAdapter_get_symbol_from_fa(token2_fa),
                        100 * float(Get(pool_stat, "tvlUSD", Num(0))),
                        100 * float(Get(pool_stat, "dailyVolumeUSD", Num(0))),
                        apr_fees, apr_farming, apr_fees + apr_farming,
                        100 * float(Get(pool_stat, "feesUSD", Num(0))),
                        int(Get(pool_info.o, "feeRate", Num(0))))>>

RECURSIVE HyperionAdapter_fetch_from_hyperion_api(_)
\* _fetch_from_hyperion_api on the records of getPoolStat: valid_pools
HyperionAdapter_fetch_from_hyperion_api(pools_stat) ==
    IF pools_stat = <<>> THEN <<>>
    ELSE HyperionAdapter_parse_pool(Head(pools_stat))
         \o HyperionAdapter_fetch_from_hyperion_api(Tail(pools_stat))

\* f"mock_pool_{i}_{token_x}_{token_y}"
mock_pool_address(i, token_x, token_y) ==
    <<"m","o","c","k","_","p","o","o","l","_">> \o str_int(i) \o <<"_">> \o token_x
    \o <<"_">> \o token_y

\* _create_mock_pools_from_tvl(total_tvl), total_tvl in whole dollars: the
\* shares are 40, 30, 15, 10 and 5 percent, base_apr is 15.0
HyperionAdapter_create_mock_pools_from_tvl(total_tvl) ==
    LET popular_pairs ==
            <<<<<<"A","P","T">>, <<"U","S","D","C">>, 40>>,
              <<<<"A","P","T">>, <<"U","S","D","T">>, 30>>,
              <<<<"U","S","D","C">>, <<"U","S","D","T">>, 15>>,
              <<<<"A","P","T">>, <<"B","T","C">>, 10>>,
              <<<<"A","P","T">>, <<"E","T","H">>, 5>>>>
        tvl_usd(k) == total_tvl * popular_pairs[k][3]
        volume_24h(k) == tvl_usd(k) \div 10
        total_apr(k) == (1500 * (10 + (k - 1))) \div 10
    IN  [k \in 1..Len(popular_pairs) |->
            PoolData(mock_pool_address(k - 1, popular_pairs[k][1], popular_pairs[k][2]),
                     popular_pairs[k][1], popular_pairs[k][2],
                     tvl_usd(k), volume_24h(k),
                     (total_apr(k) * 7) \div 10, (total_apr(k) * 3) \div 10, total_apr(k),
                     (volume_24h(k) * 3) \div 1000, 0)]

\* _create_mock_pools()
HyperionAdapter_create_mock_pools ==
    LET mock_pools_data ==
            <<<<<<"A","P","T">>, <<"U","S","D","C">>, 1000000, 100000, 5000, 1250, 550>>,
              <<<<"A","P","T">>, <<"U","S","D","T">>, 750000, 75000, 3750, 1500, 600>>,
              <<<<"U","S","D","C">>, <<"U","S","D","T">>, 500000, 50000, 2500, 800, 200>>,
              <<<<"A","P","T">>, <<"B","T","C">>, 250000, 25000, 1250, 2000, 800>>>>
    IN  [k \in 1..Len(mock_pools_data) |->
            LET d == mock_pools_data[k]
            IN  PoolData(mock_pool_address(k - 1, d[1], d[2]), d[1], d[2],
                         100 * d[3], 100 * d[4], d[6], d[7], d[6] + d[7], 100 * d[5], 0)]

\* _fetch_from_defillama on an answer [status, tvl]: status 0 is a transport
\* error; every failure and an answer without tvl entries end in
\* _create_mock_pools()
HyperionAdapter_fetch_from_defillama(response) ==
    IF response.status # 200 \/ response.tvl = <<>>
    THEN HyperionAdapter_create_mock_pools
    ELSE HyperionAdapter_create_mock_pools_from_tvl(
             float(Get(response.tvl[Len(response.tvl)], "totalLiquidityUSD", Num(0))))

MaxPools == 3

\* the call is over
AdapterEnds(call) ==
    /\ adapter' = call
    /\ UNCHANGED <<now, _cache, _cache_timestamp, _logged_unknown_tokens, calls, last_call,
                   search, resolver, filtering, db>>

\* HyperionAdapter.get_pools() where the Hyperion API answers hyperion and
\* DefiLlama, if it is asked, answers defillama
GetPools(hyperion, defillama) ==
    /\ adapter.pc = "idle"
    /\ \E pools \in {IF HyperionAPI_fetch_raises(hyperion) THEN <<>>
                     ELSE HyperionAdapter_fetch_from_hyperion_api(hyperion.getPoolStat)} :
           IF pools # <<>>
           THEN AdapterEnds([pc |-> "returned", path |-> "get_pools", hyperion |-> hyperion,
                             defillama |-> [status |-> -1, tvl |-> <<>>], pools |-> pools])
           ELSE AdapterEnds([pc |-> "returned", path |-> "get_pools", hyperion |-> hyperion,
                             defillama |-> defillama,
                             pools |-> HyperionAdapter_fetch_from_defillama(defillama)])

\* api._enrich_pool(pool) on an upstream record
EnrichPool(api, pool) ==
    /\ adapter.pc = "idle"
    /\ IF api = "hyperion"
       THEN IF HyperionAPI_enrich_raises(pool)
            THEN AdapterEnds([pc |-> "raised", path |-> "HyperionAPI._enrich_pool"])
            ELSE AdapterEnds([pc |-> "returned", path |-> "HyperionAPI._enrich_pool",
                              pools |-> <<HyperionAPI_enrich_pool(pool)>>])
       ELSE IF BluefinAPI_enrich_raises(pool)
            THEN AdapterEnds([pc |-> "raised", path |-> "BluefinAPI._enrich_pool"])
            ELSE AdapterEnds([pc |-> "returned", path |-> "BluefinAPI._enrich_pool",
                              pools |-> <<BluefinAPI_enrich_pool(pool)>>])

\* the caller is done with the answer
AdapterDone ==
    /\ adapter.pc # "idle"
    /\ AdapterEnds([pc |-> "idle"])

\* the upstream records the adapters are exercised with: getPoolStat lists of
\* up to MaxPools records, one of them malformed, ids may repeat; a record
\* that carries a total of its own; Bluefin records with either APR key
SpecAdapter ==
    Init /\ [][
              \/ \E n \in 0..MaxPools :
                  \E pools_stat \in [1..n -> {PoolAptUsdt, PoolUsdtApt, PoolFooApt, PoolNullTvl}],
                     defillama \in {[status |-> 0, tvl |-> <<>>],
                                    [status |-> 500, tvl |-> <<>>],
                                    [status |-> 200, tvl |-> <<>>],
                                    [status |-> 200,
                                     tvl |-> <<[totalLiquidityUSD |-> Num(1000000)],
                                               [totalLiquidityUSD |-> Num(2000000)]>>]} :
                      GetPools(Answer(pools_stat), defillama)
              \/ \E hyperion \in FailedResponses,
                    defillama \in {[status |-> 0, tvl |-> <<>>],
                                   [status |-> 200,
                                    tvl |-> <<[totalLiquidityUSD |-> Num(2000000)]>>]} :
                     GetPools(hyperion, defillama)
              \/ \E pool \in {PoolAptUsdt, PoolUsdtApt, PoolFooApt, PoolBadFarmApr,
                              Merge(PoolUsdtApt, [total_apr |-> Num(999)])} :
                     EnrichPool("hyperion", pool)
              \/ \E pool \in {[id |-> Str(<<"b","1">>), tvl |-> Num(300000),
                               apr |-> Num(7), farmAPR |-> Str(<<"3">>),
                               total_apr |-> Num(999)],
                              [address |-> Str(<<"b","2">>), tvlUSD |-> Num(100000),
                               feeAPR |-> Num(4), apr |-> Num(9)],
                              [id |-> Str(<<"b","3">>), farmAPR |-> Null]} :
                     EnrichPool("bluefin", pool)
              \/ AdapterDone]_vars

----------------------------------------------------------------------------
(* bot/database/crud.py: add_watched_pool. Every call opens a session of   *)
(* its own on the SQLite file of settings.DATABASE_URL and suspends at     *)
(* each await, where other calls run. A SELECT reads the committed rows    *)
(* (and the session's own pending ones); a session's first INSERT takes    *)
(* the database's write lock, db.writer, and holds it until the session    *)
(* commits or rolls back. Rows are never deleted, so a table's next id is  *)
(* its length plus one.                                                    *)

MaxAdds == 3

\* session s moves on: its locals, the committed tables and the holder of
\* the write lock afterwards. An exception leaves the `async with` block
\* (line 111), which rolls the session back.
SessionStep(s, session, users, watched_pools, writer) ==
    /\ db' = [db EXCEPT !.sessions[s] = session,
                        !.users = users,
                        !.watched_pools = watched_pools,
                        !.writer = writer]
    /\ UNCHANGED <<now, _cache, _cache_timestamp, _logged_unknown_tokens, calls, last_call,
                   search, resolver, filtering, adapter>>

\* lines 109-116: a call starts and selects the user by telegram_id
AddWatchedPool(s, telegram_id, pool_address) ==
    /\ db.sessions[s].pc \in {"idle", "returned", "raised"}
    /\ db.added < MaxAdds
    /\ \E found \in {{i \in 1..Len(db.users) : db.users[i].telegram_id = telegram_id}} :
           db' = [db EXCEPT
                     !.added = @ + 1,
                     !.sessions[s] =
                         [pc |-> IF found = {} THEN "flush" ELSE "select_pool",
                          telegram_id |-> telegram_id,
                          pool_address |-> pool_address,
                          user_id |-> IF found = {} THEN 0
                                      ELSE db.users[CHOOSE i \in found : TRUE].id,
                          pending |-> FALSE,
                          pool_id |-> 0,
                          watched |-> FALSE,
                          error |-> "none"]]
    /\ UNCHANGED <<now, _cache, _cache_timestamp, _logged_unknown_tokens, calls, last_call,
                   search, resolver, filtering, adapter>>

\* lines 117-120: session.add(user) and flush, the INSERT into users.
\* users.telegram_id is unique (models.py line 13); while another session
\* holds the write lock the INSERT waits, or gives up when SQLite's busy
\* timeout runs out
FlushUser(s) ==
    /\ db.sessions[s].pc = "flush"
    /\ \/ /\ db.writer = "none"
          /\ IF \E i \in 1..Len(db.users) :
                    db.users[i].telegram_id = db.sessions[s].telegram_id
             THEN SessionStep(s, [db.sessions[s] EXCEPT !.pc = "raised",
                                                        !.error = "IntegrityError"],
                              db.users, db.watched_pools, "none")
             ELSE SessionStep(s, [db.sessions[s] EXCEPT !.pc = "select_pool",
                                                        !.user_id = Len(db.users) + 1,
                                                        !.pending = TRUE],
                              db.users, db.watched_pools, s)
       \/ /\ db.writer # "none"
          /\ SessionStep(s, [db.sessions[s] EXCEPT !.pc = "raised",
                                                   !.error = "OperationalError"],
                         db.users, db.watched_pools, db.writer)

\* lines 122-137: select the pool by address (the pools table holds pool 1
\* at address a and pool 2 at address b), then the watched row of
\* (user.id, pool.id); scalar_one_or_none raises when it finds two
SelectPool(s) ==
    /\ db.sessions[s].pc = "select_pool"
    /\ \E pool_id \in {CASE db.sessions[s].pool_address = <<"a">> -> 1
                         [] db.sessions[s].pool_address = <<"b">> -> 2
                         [] OTHER -> 0},
          released \in {IF db.writer = s THEN "none" ELSE db.writer} :
           \E watched \in {{i \in 1..Len(db.watched_pools) :
                               /\ db.watched_pools[i].user_id = db.sessions[s].user_id
                               /\ db.watched_pools[i].pool_id = pool_id}} :
               IF pool_id = 0
               THEN SessionStep(s, [db.sessions[s] EXCEPT !.pc = "raised",
                                                          !.error = "ValueError"],
                                db.users, db.watched_pools, released)
               ELSE IF Cardinality(watched) > 1
               THEN SessionStep(s, [db.sessions[s] EXCEPT !.pc = "raised",
                                                          !.error = "MultipleResultsFound"],
                                db.users, db.watched_pools, released)
               ELSE SessionStep(s, [db.sessions[s] EXCEPT !.pc = "commit",
                                                          !.pool_id = pool_id,
                                                          !.watched = watched # {}],
                                db.users, db.watched_pools, db.writer)

\* lines 139-149: insert the watched row unless one was found, and commit,
\* which publishes the session's pending rows and releases the write lock
Commit(s) ==
    /\ db.sessions[s].pc = "commit"
    /\ \/ /\ db.writer \in {"none", s} \/ db.sessions[s].watched
          /\ SessionStep(s, [db.sessions[s] EXCEPT !.pc = "returned", !.pending = FALSE],
                         IF db.sessions[s].pending
                         THEN Append(db.users, [id |-> db.sessions[s].user_id,
                                                telegram_id |-> db.sessions[s].telegram_id])
                         ELSE db.users,
                         IF db.sessions[s].watched
                         THEN db.watched_pools
                         ELSE Append(db.watched_pools,
                                     [id |-> Len(db.watched_pools) + 1,
                                      user_id |-> db.sessions[s].user_id,
                                      pool_id |-> db.sessions[s].pool_id]),
                         IF db.writer = s THEN "none" ELSE db.writer)
       \/ /\ db.writer \notin {"none", s}
          /\ ~db.sessions[s].watched
          /\ SessionStep(s, [db.sessions[s] EXCEPT !.pc = "raised",
                                                   !.error = "OperationalError"],
                         db.users, db.watched_pools, db.writer)

SpecWatch ==
    Init /\ [][
               \/ \E s \in {"s1", "s2"}, telegram_id \in {7, 8},
                     pool_address \in {<<"a">>, <<"b">>, <<"x">>} :
                      AddWatchedPool(s, telegram_id, pool_address)
               \/ \E s \in {"s1", "s2"} : FlushUser(s)
               \/ \E s \in {"s1", "s2"} : SelectPool(s)
               \/ \E s \in {"s1", "s2"} : Commit(s)
            ]_vars

----------------------------------------------------------------------------
(* Claims about the adapter cache, checked under SpecCache.                *)

\* no get_all_pools call of adapter api is suspended at its upstream await
NoneInFlight(api) == \A d \in Callers : calls[d].pc # "fetching" \/ calls[d].api # api

\* C1: two consecutive, non-overlapping get_all_pools() calls without
\* force_refresh, the second starting less than CACHE_TTL after the first,
\* issue at most one upstream call when the first call's fetch succeeded: the
\* second call, made after a call that fetched, issues none.
C1_SecondCallWithinTtlIssuesNoUpstreamCall ==
    [][\A c \in Callers, api \in Adapters :
           (/\ GetAllPools(c, api, FALSE)
            /\ NoneInFlight(api)
            /\ last_call[api].outcome = "fetched"
            /\ now - last_call[api].current_time < CACHE_TTL)
           => calls'[c].upstream = "none"]_vars

\* C2: a call whose own upstream call failed raises only if no earlier call
\* of the instance completed a successful fetch (_cache, which only a
\* successful fetch assigns, is still None), whatever list that fetch produced.
C2_RaisesOnlyWithoutAnyEarlierFetch ==
    [][\A c \in Callers :
           (calls[c].pc = "fetching" /\ calls'[c].pc = "raised" /\ calls'[c].upstream = "failed")
           => _cache[calls[c].api] = <<>>]_vars

\* C3: with a populated (non-empty) cache of any age and an upstream failure,
\* get_all_pools, with or without force_refresh, returns the cached list and
\* does not raise.
C3_StaleCacheServedOnUpstreamFailure ==
    [][\A c \in Callers, response \in FailedResponses :
           (FetchReturns(c, response) /\ cache_truthy(Self(calls[c].api)))
           => /\ calls'[c].pc = "returned"
              /\ calls'[c].result = _cache[calls[c].api][1]
              /\ calls'[c].result # <<>>]_vars

\* a forced and an unforced call have both been answered with a failure while
\* the cached list was past its TTL
C3_Witness ==
    \E c \in Callers :
        /\ calls[c].pc = "returned"
        /\ calls[c].outcome = "stale"
        /\ calls[c].upstream = "failed"
        /\ calls[c].result # <<>>
        /\ now - _cache_timestamp[calls[c].api] >= CACHE_TTL
        /\ \E d \in Callers : calls[d].pc = "fetching" /\ calls[d].force_refresh

\* C4: a call that returns without its own upstream call having failed
\* returns the list fetched in that call or a cache entry younger than
\* CACHE_TTL.
C4_StaleOnlyAfterUpstreamFailure ==
    [][\A c \in Callers :
           (/\ calls'[c] # calls[c]
            /\ calls'[c].pc = "returned"
            /\ calls'[c].upstream # "failed")
           => \/ /\ calls'[c].outcome = "fetched"
                 /\ _cache'[calls'[c].api] = <<calls'[c].result>>
              \/ /\ _cache[calls'[c].api] = <<calls'[c].result>>
                 /\ now - _cache_timestamp[calls'[c].api] < CACHE_TTL]_vars

\* a record that the filter and _enrich_pool process without an exception
WellFormed(p) == ~HyperionAPI_active_raises(p) /\ ~HyperionAPI_enrich_raises(p)

WellFormedActive(p) == WellFormed(p) /\ HyperionAPI_is_active(p)

\* C5: a malformed record is dropped: when the upstream answers, the call
\* returns and caches the enriched well-formed records of the answer, and
\* neither raises nor falls back to the stale cache.
C5_MalformedRecordIsDropped ==
    [][\A c \in Callers, response \in CacheResponses \ FailedResponses :
           FetchReturns(c, response)
           => LET kept == SelectSeq(response.getPoolStat, WellFormedActive)
              IN  /\ calls'[c].outcome = "fetched"
                  /\ calls'[c].result = [i \in 1..Len(kept) |-> HyperionAPI_enrich_pool(kept[i])]
                  /\ _cache'[calls[c].api] = <<calls'[c].result>>]_vars

----------------------------------------------------------------------------
(* Claims about search_token, checked under SpecSearch.                     *)

Range(xs) == {xs[k] : k \in 1..Len(xs)}

\* the (chain, protocol) entries of the registry
ProtocolInfos ==
    UNION {Range(protocols[i].protocols) : i \in 1..Len(protocols)}

\* the ProtocolResults of a TokenSearchResult
ProtocolResultsIn(result) ==
    UNION {Range(result.blockchains[i].protocols) : i \in 1..Len(result.blockchains)}

\* the pools a TokenSearchResult lists for a protocol
ResultPools(result, protocol_id) ==
    UNION {Range(r.pools) : r \in {x \in ProtocolResultsIn(result) : x.protocol_id = protocol_id}}

\* the unordered pair of a pool's resolved symbols, upper-cased
PairOf(pool) == {upper(pool.token_a.s), upper(pool.token_b.s)}

\* the list an adapter holds
Cached(cache) == IF cache = <<>> THEN {} ELSE Range(cache[1])

\* C6: when the upstream of the adapter search_token waits for answers, be it
\* with a failure and nothing cached so that get_all_pools raises, search_token
\* returns a TokenSearchResult; it lists nothing for an adapter that raised and,
\* for every other adapter, the pools of that adapter's list that the query
\* selects.
C6_SearchSurvivesAdapterFailure ==
    [][\A response \in SearchResponses :
           SearchFetchReturns(response)
           => LET awaited == protocols[search.chain].protocols[search.protocol]
                  failed == /\ HyperionTried[response].raised
                            /\ ~cache_truthy(Self(awaited.api))
              IN  /\ search'.pc = "returned"
                  /\ failed => ResultPools(search'.result[1], awaited.protocol_id) = {}
                  /\ \A info \in ProtocolInfos :
                         (info # awaited \/ ~failed)
                         => ResultPools(search'.result[1], info.protocol_id)
                                = {pool \in Cached(_cache'[info.api]) :
                                       filter_pools_matches(pool, search.token_a, search.token_b)}]_vars

\* a search returned although the Hyperion adapter raised
C6_Witness ==
    /\ search.pc = "returned"
    /\ search.errors = {"hyperion"}
    /\ search.upstream = 2
    /\ ~cache_truthy(Self("hyperion"))

\* C7: a returned pair query A-B lists, for every adapter that did not fail,
\* exactly the pools of the adapter's list whose unordered pair of upper-cased
\* symbols is {A, B}, and lists no other pool.
C7_PairQueryReturnsExactlyThePair ==
    (search.pc = "returned" /\ search.token_b # <<>>)
    => \A info \in ProtocolInfos :
           ResultPools(search.result[1], info.protocol_id)
               = IF info.protocol_id \in search.errors THEN {}
                 ELSE {pool \in Cached(_cache[info.api]) :
                           PairOf(pool) = {search.token_a, search.token_b[1]}}

\* C8: a returned query that contains '-' has two segments and lists only
\* pools whose two symbols are these two segments: it was not matched as a
\* single token.
C8_DashQueryIsNeverSingleToken ==
    (search.pc = "returned" /\ contains(search.query, <<"-">>))
    => LET tokens == split(search.query, <<"-">>)
       IN  /\ Len(tokens) = 2
           /\ \A info \in ProtocolInfos :
                  \A pool \in ResultPools(search.result[1], info.protocol_id) :
                      PairOf(pool) = {tokens[1], tokens[2]}

\* C9: a query of more than two segments ends search_token with ValueError
\* with no upstream call issued and every adapter's cache and timestamp as
\* they were.
C9_InvalidPairFailsBeforeAnyAdapterCall ==
    [][\A query \in Queries :
           (SearchToken(query) /\ Len(split(normalize_query(query), <<"-">>)) > 2)
           => /\ search'.pc = "ValueError"
              /\ search'.upstream = 0
              /\ search'.result = <<>>
              /\ _cache' = _cache
              /\ _cache_timestamp' = _cache_timestamp]_vars

\* an invalid pair was rejected while the Hyperion adapter held an expired list
C9_Witness ==
    /\ search.pc = "ValueError"
    /\ cache_truthy(Self("hyperion"))
    /\ now - _cache_timestamp["hyperion"] >= CACHE_TTL

\* C10: in a returned TokenSearchResult every ProtocolResult counts its pools
\* and totals their TVL, every BlockchainResult totals the counts and TVLs of
\* its protocols and holds the largest of their best_apr, and total_pools
\* totals the counts of the blockchains.
C10_AggregatesAreConsistent ==
    search.pc = "returned"
    => LET result == search.result[1]
       IN  /\ result.total_pools
                  = Sum([k \in 1..Len(result.blockchains) |-> result.blockchains[k].pool_count])
           /\ \A b \in Range(result.blockchains) :
                  /\ b.pool_count = Sum([k \in 1..Len(b.protocols) |-> b.protocols[k].pool_count])
                  /\ b.total_tvl = Sum([k \in 1..Len(b.protocols) |-> b.protocols[k].total_tvl])
                  /\ \E r \in Range(b.protocols) : b.best_apr = r.best_apr
                  /\ \A r \in Range(b.protocols) : b.best_apr >= r.best_apr
           /\ \A r \in ProtocolResultsIn(result) :
                  /\ r.pool_count = Len(r.pools)
                  /\ r.total_tvl = Sum([k \in 1..Len(r.pools) |-> float(pool_tvl(r.pools[k]))])

\* a result with a protocol of three pools of different TVL
C10_Witness ==
    /\ search.pc = "returned"
    /\ \E r \in ProtocolResultsIn(search.result[1]) :
           /\ r.pool_count = 3
           /\ float(pool_tvl(r.pools[1])) > float(pool_tvl(r.pools[3]))
    /\ search.result[1].total_pools = 3

----------------------------------------------------------------------------
(* Claims about the token resolvers.                                        *)

\* every spelling of every identifier of TOKEN_REGISTRY with its registered symbol
RegisteredSpellings ==
    UNION {{<<identifier, TOKEN_REGISTRY[i][2]>> : identifier \in Spellings(TOKEN_REGISTRY[i][1])} :
               i \in 1..Len(TOKEN_REGISTRY)}

\* C12: for every identifier of TOKEN_REGISTRY, in the registered spelling,
\* upper-cased, or lower-cased between whitespace, get_token_symbol returns
\* the registered symbol, on a first call and on a repeated call, answers
\* from the registry and leaves _logged_unknown_tokens and the log as they
\* were.
C12_RegistryHitIsIdempotent ==
    [][\A registered \in RegisteredSpellings :
           Resolve("token_registry", Str(registered[1]))
           => /\ resolver'.symbol = registered[2]
              /\ resolver'.tier = "registry"
              /\ ~resolver'.logged
              /\ _logged_unknown_tokens' = _logged_unknown_tokens
              /\ resolver'.log = resolver.log]_vars

\* an upper-cased registered identifier resolved a second time in a row
C12_Witness ==
    /\ resolver.entry = "token_registry"
    /\ resolver.repeated
    /\ resolver.token_address = Str(upper(TOKEN_REGISTRY[11][1]))
    /\ resolver.symbol = TOKEN_REGISTRY[11][2]

\* C13: an unregistered identifier ending in UsdcCoin resolves to ceUSDC
\* through every resolver entry point, and get_token_symbol of
\* bot/utils/token_registry.py answers it from a pattern rule.
C13_UsdcCoinResolvesToCeUSDC ==
    [][\A entry \in ResolverEntries :
           Resolve(entry, Str(TOKEN_USDCCOIN))
           => /\ resolver'.symbol = <<"c","e","U","S","D","C">>
              /\ entry = "token_registry" => resolver'.tier = "pattern"]_vars

\* C14: get_token_symbol, of bot/utils/token_registry.py and of
\* token_parser.py, returns "FOO" for 0xdeadbeef::mod::Foo, which no registry
\* entry, pattern rule or special rule covers.
C14_HeuristicReturnsLastSegmentUpperCased ==
    [][\A entry \in {"token_registry", "token_parser"} :
           Resolve(entry, Str(TOKEN_FOO)) => resolver'.symbol = <<"F","O","O">>]_vars

\* C15: a call of get_token_symbol (bot/utils/token_registry.py, token_parser.py)
\* or of _get_token_symbol_fallback that is answered by the registry or a
\* pattern rule writes no log record, and one answered by the heuristic or with
\* a shortened address writes a log record exactly when that entry point has
\* not logged the identifier before.
C15_UnknownIsLoggedExactlyOnce ==
    [][\A entry \in {"token_registry", "token_parser", "_get_token_symbol_fallback"} :
           \A token_address \in Identifiers :
               Resolve(entry, token_address)
               => /\ resolver'.tier \in {"registry", "pattern"} => ~resolver'.logged
                  /\ resolver'.tier \in {"heuristic", "opaque"}
                     => (resolver'.logged
                         <=> <<entry, token_address.s>> \notin Range(resolver.log))]_vars

\* C16: a call with None or '' that follows another call with None or '',
\* through the same or another resolver entry point, returns the same symbol.
C16_OneSentinelInEveryEntryPoint ==
    [][\A entry \in ResolverEntries : \A token_address \in {Null, Str(<<>>)} :
           (/\ resolver.entry \in ResolverEntries
            /\ ~truthy(resolver.token_address)
            /\ Resolve(entry, token_address))
           => resolver'.symbol = resolver.symbol]_vars

----------------------------------------------------------------------------
(* Claims about filter_pools, checked under SpecFilter.                      *)

\* the number a pool is ordered by under sort_by
KeyOf(sort_by, p) ==
    float(CASE sort_by = "tvl"    -> p.tvlUSD
            [] sort_by = "volume" -> p.dailyVolumeUSD
            [] sort_by = "apr"    -> p.total_apr
            [] sort_by = "fees"   -> p.feesUSD)

PositionIn(xs, x) == CHOOSE k \in 1..Len(xs) : xs[k] = x

\* C17: for sort_by tvl, volume, apr and fees the list filter_pools returns is
\* ordered by that key, largest first, and two pools with equal keys stand in
\* the order they had in the list passed in.
C17_OutputIsSortedAndStable ==
    (filtering.pc = "returned" /\ filtering.call.sort_by \in {"tvl", "volume", "apr", "fees"})
    => \A i, j \in 1..Len(filtering.filtered) :
           i < j =>
               /\ KeyOf(filtering.call.sort_by, filtering.filtered[i])
                  >= KeyOf(filtering.call.sort_by, filtering.filtered[j])
               /\ KeyOf(filtering.call.sort_by, filtering.filtered[i])
                  = KeyOf(filtering.call.sort_by, filtering.filtered[j])
                  => PositionIn(filtering.pools_before, filtering.filtered[i])
                     < PositionIn(filtering.pools_before, filtering.filtered[j])

\* four pools with pairwise equal total_apr, passed in an order that is not
\* the sorted one, come back ordered by apr
C17_Witness ==
    /\ filtering.pc = "returned"
    /\ filtering.call.sort_by = "apr"
    /\ filtering.pools_before = <<PoolD, PoolC, PoolB, PoolA>>
    /\ filtering.filtered = <<PoolD, PoolB, PoolC, PoolA>>

C19_InputIsNotMutated ==
    filtering.pc \in {"returned", "raised"}
    => (filtering.pools = filtering.pools_before /\ ~filtering.is_pools)

\* a call that drops one pool and reorders the others
C19_Witness ==
    /\ filtering.pc = "returned"
    /\ filtering.input = "given"
    /\ filtering.pools_before = <<PoolD, PoolC, PoolB, PoolA>>
    /\ filtering.pools = <<PoolD, PoolC, PoolB, PoolA>>
    /\ filtering.filtered = <<PoolC, PoolD, PoolA>>

\* C20: when filter_pools is given a limit >= 0, the list it returns is no
\* longer than limit.
C20_OutputIsNoLongerThanLimit ==
    (filtering.pc = "returned" /\ filtering.call.limit # <<>> /\ filtering.call.limit[1] >= 0)
    => Len(filtering.filtered) <= filtering.call.limit[1]

\* C21: HyperionAPI.filter_pools has no volume parameter, so no caller passes
\* a volume floor: without a limit it returns every pool of the list passed in
\* that is at or above min_tvl, has a positive tvlUSD, is of a listed fee tier
\* if fee tiers are listed, and has the asked farm presence if one is asked.
C21_VolumeIsDroppedOnlyOnRequest ==
    (filtering.pc = "returned" /\ filtering.api = "hyperion" /\ filtering.call.limit = <<>>)
    => \A i \in 1..Len(filtering.pools_before) :
           LET p == filtering.pools_before[i]
               fee_tiers == filtering.call.fee_tiers
           IN  (/\ float(p.tvlUSD) >= filtering.call.min_tvl
                /\ float(p.tvlUSD) > 0
                /\ (fee_tiers = <<>> \/ fee_tiers[1] = <<>>
                    \/ p.fee_tier_value.n \in Range(fee_tiers[1]))
                /\ (filtering.call.has_farm = Null \/ p.has_farm = filtering.call.has_farm))
               => p \in Range(filtering.filtered)

----------------------------------------------------------------------------
(* Claims about the records the adapters produce, checked under SpecAdapter. *)

C23_SyntheticOnlyWhenEverySourceFailed ==
    (/\ adapter.pc = "returned"
     /\ adapter.path = "get_pools"
     /\ \E i \in 1..Len(adapter.pools) :
            startswith(adapter.pools[i].pool_address,
                       <<"m","o","c","k","_","p","o","o","l","_">>))
    => /\ adapter.hyperion.status # 200 \/ adapter.hyperion.errors
       /\ adapter.defillama.status \notin {-1, 200}

\* C24: no two records of a list get_pools returns have the same pool_address.
C24_PoolAddressIsUnique ==
    (adapter.pc = "returned" /\ adapter.path = "get_pools")
    => \A i, j \in 1..Len(adapter.pools) :
           adapter.pools[i].pool_address = adapter.pools[j].pool_address => i = j

----------------------------------------------------------------------------
(* Claims about overlapping get_all_pools calls, checked under SpecCache.  *)

\* C25: at no time are two callers of the same adapter instance both
\* suspended at the await of the upstream fetch.
C25_OneFetchInFlightPerAdapter ==
    \A c, d \in Callers :
        (/\ calls[c].pc = "fetching"
         /\ calls[d].pc = "fetching"
         /\ calls[c].api = calls[d].api)
        => c = d

\* C27: no step lowers an adapter's _cache_timestamp.
C27_TimestampNeverDecreases ==
    [][\A api \in Adapters : _cache_timestamp'[api] >= _cache_timestamp[api]]_vars

\* C28: the step in which a get_all_pools call ends in its except branch
\* (serving the stale entry or raising) leaves _cache and _cache_timestamp as
\* they were, and a step that changes either of them for an adapter is the
\* end of a call to that adapter whose fetch succeeded, which stores its own
\* current_time.
C28_FailedCallLeavesTheCacheAlone ==
    [][/\ \A c \in Callers :
              (/\ calls[c].pc = "fetching"
               /\ calls'[c].pc # "fetching"
               /\ calls'[c].outcome \in {"stale", "raised"})
              => /\ _cache' = _cache
                 /\ _cache_timestamp' = _cache_timestamp
       /\ \A api \in Adapters :
              (_cache'[api] # _cache[api] \/ _cache_timestamp'[api] # _cache_timestamp[api])
              => \E c \in Callers :
                     /\ calls'[c].pc = "returned"
                     /\ calls'[c].api = api
                     /\ calls'[c].outcome = "fetched"
                     /\ _cache'[api] = <<calls'[c].result>>
                     /\ _cache_timestamp'[api] = last_call'[api].current_time
                     /\ last_call'[api].outcome = "fetched"]_vars

\* a call has just served the stale entry after a failed fetch, later than
\* the fetch that filled the cache, and a call has raised with nothing cached
C28_Witness ==
    /\ \E c \in Callers :
           /\ calls[c].pc = "returned"
           /\ calls[c].outcome = "stale"
           /\ calls[c].upstream = "failed"
           /\ last_call[calls[c].api].outcome = "stale"
           /\ last_call[calls[c].api].current_time > _cache_timestamp[calls[c].api]
           /\ _cache[calls[c].api] = <<calls[c].result>>
           /\ calls[c].result # <<>>

----------------------------------------------------------------------------
(* Claims about the symbols parse_token_symbol_from_address produces,      *)
(* checked under SpecParse.                                                *)

\* C26: a symbol get_token_symbol returns from the last segment of an
\* identifier of three or more segments, after registry and pattern rules
\* missed, has at most 10 characters.
C26_HeuristicSymbolIsAtMostTenChars ==
    (resolver.entry = "token_registry" /\ resolver.tier = "heuristic")
    => Len(resolver.symbol) <= 10

\* C29: get_token_symbol returns a non-empty symbol for a non-empty str.
C29_SymbolIsNeverEmpty ==
    (/\ resolver.entry = "token_registry"
     /\ resolver.token_address.t = "str"
     /\ resolver.token_address.s # <<>>)
    => resolver.symbol # <<>>

----------------------------------------------------------------------------
(* Claims about the watch list, checked under SpecWatch.                   *)

\* C30: the committed tables hold at most one watched_pools row for a
\* (user_id, pool_id) pair and at most one users row for a telegram_id.
C30_OneRowPerUserAndPool ==
    /\ \A i, j \in 1..Len(db.watched_pools) :
           (/\ db.watched_pools[i].user_id = db.watched_pools[j].user_id
            /\ db.watched_pools[i].pool_id = db.watched_pools[j].pool_id)
           => i = j
    /\ \A i, j \in 1..Len(db.users) :
           db.users[i].telegram_id = db.users[j].telegram_id => i = j

====
